---- MODULE Spec2Model ----
(***************************************************************************)
(* Mesh renumbering for threads (src/src/base/cs_renumber.c).              *)
(*                                                                         *)
(* C arrays are functions over 0..n-1; a cell pair i_face_cells[f] is the  *)
(* tuple <<c0, c1>>, so the C expressions x[f][0], x[f][1] read p[1], p[2].*)
(* Integer division and the double -> int conversions of the source are    *)
(* written out where they occur.                                           *)
(***************************************************************************)
EXTENDS Integers, Sequences, FiniteSets, TLC

VARIABLES
  pc,     \* position of the running function
  cfg,    \* the file-scope settings (lines 128-133)
  mesh,   \* the cs_mesh_t fields the renumbering reads and writes
  mp,     \* locals of _renum_face_multipass (lines 1610-1631)
  out,    \* what the running index producer has returned so far
  hist    \* values remembered at call time, for the properties only

vars == <<pc, cfg, mesh, mp, out, hist>>

(***************************************************************************)
(* Bounds of the model                                                     *)
(***************************************************************************)
MaxFaces == 3          \* faces of an enumerated mesh
MaxFaceCells == 4      \* cells that enumerated faces may touch
MaxExtraCells == 2     \* further cells (local or ghost) without a face
MaxGroups == 4         \* passes of the multipass loop that are followed
MaxSharedFaces == 2    \* faces that two cells may share
MaxThreadFaces == 5    \* interior faces of a mesh renumbered for threads
MaxChainCells == 100   \* cells of a long chain
ChainSpread == 7       \* how far below MaxChainCells the long chains start
MaxBlockFaces == 11    \* faces of a mesh of disjoint pairs or of a chain
MaxRowFaces == 10      \* boundary faces of a row
MaxWideCells == 6      \* cells of a mesh with faces from two cells
MaxBoundGroups == 2    \* groups handed to _thread_bounds_by_group_size
MaxGroupFaces == 16    \* faces of such a group
MaxTestFaces == 2      \* interior faces of a mesh handed to _renumber_test
MaxGraphCells == 3     \* cells of a graph built from any array of faces
MaxGraphFaces == 3     \* faces of such a graph
MaxStarFaces == 22     \* faces around the centre of a star
StarLeaves == 11       \* cells around the centre of a star

(***************************************************************************)
(* Small helpers                                                           *)
(***************************************************************************)
Min2(a, b) == IF a < b THEN a ELSE b
Max2(a, b) == IF a > b THEN a ELSE b

EmptyArr == [i \in 0..(-1) |-> 0]

\* lexicographic order on integer tuples of one length
RECURSIVE LexLess(_, _, _)
LexLess(a, b, i) ==
  IF i > Len(a) THEN FALSE
  ELSE IF a[i] # b[i] THEN a[i] < b[i]
  ELSE LexLess(a, b, i + 1)

LexLE(a, b) == ~LexLess(b, a, 1)

\* the value left in x[k] by a loop "x[a[i]] = i" on i = 0 .. n-1, which
\* is the last i with a[i] = k
LastWritten(a, n, k) ==
  CHOOSE i \in 0..(n - 1) :
    a[i] = k /\ \A j \in 0..(n - 1) : a[j] = k => j <= i

(***************************************************************************)
(* Lexical sorter (cs_order_lnum_allocated_s): the orderings of 0..n-1     *)
(* under which the keys are non-decreasing.  Equal keys may come out in    *)
(* either order, so the result is a set and the caller picks from it.      *)
(***************************************************************************)
\* the sequences that hold each element of S once
RECURSIVE PermsOf(_)
PermsOf(S) ==
  IF S = {} THEN {<<>>}
  ELSE UNION {{<<x>> \o rest : rest \in PermsOf(S \ {x})} : x \in S}

\* the elements of S with a key below, equal to, above the key of x
KeysBelow(S, keys, x) == {y \in S : LexLess(keys[y], keys[x], 1)}

KeysEqual(S, keys, x) == {y \in S : keys[y] = keys[x]}

KeysAbove(S, keys, x) == {y \in S : LexLess(keys[x], keys[y], 1)}

\* an element of S with at most half of S below it and at most half above
MiddleKey(S, keys) ==
  CHOOSE x \in S : /\ 2 * Cardinality(KeysBelow(S, keys, x)) <= Cardinality(S)
                   /\ 2 * Cardinality(KeysAbove(S, keys, x)) <= Cardinality(S)

\* the orderings of S: those of the keys below a middle key, then the
\* elements with that key in any order, then those of the keys above
RECURSIVE OrdersOf(_, _)
OrdersAround(S, keys, x) ==
  {below \o equal \o above :
     below \in OrdersOf(KeysBelow(S, keys, x), keys),
     equal \in PermsOf(KeysEqual(S, keys, x)),
     above \in OrdersOf(KeysAbove(S, keys, x), keys)}

OrdersOf(S, keys) ==
  IF S = {} THEN {<<>>} ELSE OrdersAround(S, keys, MiddleKey(S, keys))

cs_order_lnum_allocated_s(keys, n) ==
  {[i \in 0..(n - 1) |-> sq[i + 1]] : sq \in OrdersOf(0..(n - 1), keys)}

(***************************************************************************)
(* Arrays that may be absent: a C pointer that is NULL or points to the     *)
(* array a                                                                 *)
(***************************************************************************)
Null == [null |-> TRUE, a |-> EmptyArr]

Arr(a) == [null |-> FALSE, a |-> a]

(***************************************************************************)
(* _update_family (lines 150-169), _update_global_num (lines 180-210)      *)
(***************************************************************************)
\* lines 161-166 without the copy old_family: the loop reads entries that it
\* has already overwritten
RECURSIVE GatherInPlace(_, _, _)
GatherInPlace(a, new_to_old, ii) ==
  IF ii < 0 THEN a
  ELSE [GatherInPlace(a, new_to_old, ii - 1) EXCEPT
          ![ii] = GatherInPlace(a, new_to_old, ii - 1)[new_to_old[ii]]]

update_family_in_place(n_elts, new_to_old, family) ==
  IF family.null THEN family
  ELSE Arr(GatherInPlace(family.a, new_to_old, n_elts - 1))

update_family(n_elts, new_to_old, family) ==
  IF family.null THEN family
  ELSE Arr([ii \in 0..(n_elts - 1) |-> family.a[new_to_old[ii]]])

\* lines 180-210 with the numbers always made from new_to_old
update_global_num_afresh(n_elts, new_to_old, global_num) ==
  Arr([i \in 0..(n_elts - 1) |-> new_to_old[i] + 1])

update_global_num(n_elts, new_to_old, global_num) ==
  IF global_num.null
  THEN Arr([i \in 0..(n_elts - 1) |-> new_to_old[i] + 1])
  ELSE Arr([i \in 0..(n_elts - 1) |-> global_num.a[new_to_old[i]]])

(***************************************************************************)
(* _update_face_vertices (lines 343-381); the same loop rewrites the       *)
(* cell -> cells index of _cs_renumber_update_cells (lines 297-312).       *)
(*                                                                         *)
(* v holds idx, lst and start_id; idx holds positions counted from 1.      *)
(***************************************************************************)
\* lines 367-375 for the new face ii with old id jj
CopyFace(v, idx_old, lst_old, ii, jj) ==
  [idx |-> [v.idx EXCEPT
              ![ii + 1] = v.start_id + (idx_old[jj + 1] - idx_old[jj]) + 1],
   lst |-> [k \in DOMAIN v.lst |->
              IF /\ k >= v.start_id
                 /\ k < v.start_id + (idx_old[jj + 1] - idx_old[jj])
              THEN lst_old[(idx_old[jj] - 1) + (k - v.start_id)]
              ELSE v.lst[k]],
   start_id |-> v.start_id + (idx_old[jj + 1] - idx_old[jj])]

\* lines 362-376
RECURSIVE FaceVerticesLoop(_, _, _, _)
FaceVerticesLoop(idx_old, lst_old, new_to_old, ii) ==
  IF ii < 0
  THEN [idx |-> [idx_old EXCEPT ![0] = 1], lst |-> lst_old, start_id |-> 0]
  ELSE CopyFace(FaceVerticesLoop(idx_old, lst_old, new_to_old, ii - 1),
                idx_old, lst_old, ii, new_to_old[ii])

\* the index and the list that a loop leaves in v
IndexedList(v) == [idx |-> v.idx, lst |-> Arr(v.lst)]

\* line 349; c holds face_vtx_idx as idx and face_vtx as lst
update_face_vertices(n_faces, c, new_to_old) ==
  IF c.lst.null THEN c
  ELSE IndexedList(FaceVerticesLoop(c.idx, c.lst.a, new_to_old, n_faces - 1))

(***************************************************************************)
(* _cs_renumber_update_faces (lines 392-478)                               *)
(***************************************************************************)
\* lines 404-436
UpdateInteriorFaces(msh, new_to_old_i) ==
  [msh EXCEPT
     !.i_face_cells = [face_id \in 0..(msh.n_i_faces - 1) |->
                         msh.i_face_cells[new_to_old_i[face_id]]],
     !.i_face_vtx = update_face_vertices(msh.n_i_faces, @, new_to_old_i),
     !.i_face_family = update_family(msh.n_i_faces, new_to_old_i, @),
     !.global_i_face_num = update_global_num(msh.n_i_faces, new_to_old_i, @)]

\* lines 440-471
UpdateBoundaryFaces(msh, new_to_old_b) ==
  [msh EXCEPT
     !.b_face_cells = [face_id \in 0..(msh.n_b_faces - 1) |->
                         msh.b_face_cells[new_to_old_b[face_id]]],
     !.b_face_vtx = update_face_vertices(msh.n_b_faces, @, new_to_old_b),
     !.b_face_family = update_family(msh.n_b_faces, new_to_old_b, @),
     !.global_b_face_num = update_global_num(msh.n_b_faces, new_to_old_b, @)]

UpdateBoundaryIfGiven(msh, new_to_old_b) ==
  IF new_to_old_b.null THEN msh ELSE UpdateBoundaryFaces(msh, new_to_old_b.a)

cs_renumber_update_faces(msh, new_to_old_i, new_to_old_b) ==
  UpdateBoundaryIfGiven(
    IF new_to_old_i.null THEN msh ELSE UpdateInteriorFaces(msh, new_to_old_i.a),
    new_to_old_b)

(***************************************************************************)
(* _cs_renumber_update_cells (lines 220-331), for a mesh without halo.     *)
(*                                                                         *)
(* garb is the value of a read of new_cell_id outside the entries that     *)
(* were written.                                                           *)
(***************************************************************************)
\* lines 244-248 without the loop on the ghost cells, whose entries are
\* then read without having been written
NewCellIdLocalOnly(msh, new_to_old, garb) ==
  [c \in 0..(msh.n_cells_with_ghosts - 1) |->
     IF \E ii \in 0..(msh.n_cells - 1) : new_to_old[ii] = c
     THEN LastWritten(new_to_old, msh.n_cells, c)
     ELSE garb]

\* lines 244-248
NewCellId(msh, new_to_old, garb) ==
  [c \in 0..(msh.n_cells_with_ghosts - 1) |->
     IF c >= msh.n_cells THEN c
     ELSE IF \E ii \in 0..(msh.n_cells - 1) : new_to_old[ii] = c
     THEN LastWritten(new_to_old, msh.n_cells, c)
     ELSE garb]

\* a read of new_cell_id
ReadCellId(new_cell_id, c, garb) ==
  IF c \in DOMAIN new_cell_id THEN new_cell_id[c] ELSE garb

\* lines 300-312 for the new cell ii with old id jj
CopyCell(v, idx_old, lst_old, new_cell_id, garb, ii, jj) ==
  [idx |-> [v.idx EXCEPT
              ![ii + 1] = v.start_id + (idx_old[jj + 1] - idx_old[jj]) + 1],
   lst |-> [k \in DOMAIN v.lst |->
              IF /\ k >= v.start_id
                 /\ k < v.start_id + (idx_old[jj + 1] - idx_old[jj])
              THEN ReadCellId(new_cell_id,
                              lst_old[(idx_old[jj] - 1) + (k - v.start_id)] - 1,
                              garb) + 1
              ELSE v.lst[k]],
   start_id |-> v.start_id + (idx_old[jj + 1] - idx_old[jj])]

\* lines 297-312
RECURSIVE CellCellsLoop(_, _, _, _, _, _)
CellCellsLoop(idx_old, lst_old, new_to_old, new_cell_id, garb, ii) ==
  IF ii < 0
  THEN [idx |-> [idx_old EXCEPT ![0] = 1], lst |-> lst_old, start_id |-> 0]
  ELSE CopyCell(CellCellsLoop(idx_old, lst_old, new_to_old, new_cell_id, garb,
                              ii - 1),
                idx_old, lst_old, new_cell_id, garb, ii, new_to_old[ii])

\* lines 282-313; c holds cell_cells_idx as idx and cell_cells_lst as lst
UpdateCellCells(n_cells, c, new_to_old, new_cell_id, garb) ==
  IF c.lst.null THEN c
  ELSE IndexedList(CellCellsLoop(c.idx, c.lst.a, new_to_old, new_cell_id,
                                 garb, n_cells - 1))

\* lines 257-331 once new_cell_id is built
UpdateCells(msh, new_to_old, new_cell_id, garb) ==
  [msh EXCEPT
     !.i_face_cells = [face_id \in 0..(msh.n_i_faces - 1) |->
                         <<new_cell_id[msh.i_face_cells[face_id][1]],
                           new_cell_id[msh.i_face_cells[face_id][2]]>>],
     !.b_face_cells = [face_id \in 0..(msh.n_b_faces - 1) |->
                         ReadCellId(new_cell_id,
                                    msh.b_face_cells[face_id] - 1, garb)],
     !.cell_cells = UpdateCellCells(msh.n_cells, @, new_to_old, new_cell_id,
                                    garb),
     !.cell_family = update_family(msh.n_cells, new_to_old, @),
     !.global_cell_num = update_global_num(msh.n_cells, new_to_old, @)]

cs_renumber_update_cells(msh, new_to_old, garb) ==
  IF new_to_old.null THEN msh
  ELSE UpdateCells(msh, new_to_old.a, NewCellId(msh, new_to_old.a, garb), garb)

\* the call reads new_cell_id outside the array
UpdateCellsReadsOutside(msh, new_to_old) ==
  /\ ~new_to_old.null
  /\ \E face_id \in 0..(msh.n_b_faces - 1) : msh.b_face_cells[face_id] = 0

(***************************************************************************)
(* _renum_face_multipass_assign (lines 1251-1297)                          *)
(*                                                                         *)
(* m is the frame of _renum_face_multipass, whose arrays the call reads    *)
(* and writes.                                                             *)
(***************************************************************************)
\* while (c_id_0 >= t_cell_index[t_id+1]) t_id += 1;
RECURSIVE AdvanceThread(_, _, _)
AdvanceThread(c_id_0, t_cell_index, t_id) ==
  IF c_id_0 >= t_cell_index[t_id + 1]
  THEN AdvanceThread(c_id_0, t_cell_index, t_id + 1)
  ELSE t_id

\* the test of lines 1287-1288 without its second half
InThreadBlockLowerOnly(pair, t_cell_index, t_id) ==
  pair[1] >= t_cell_index[t_id]

\* the test of lines 1287-1288
InThreadBlock(pair, t_cell_index, t_id) ==
  /\ pair[1] >= t_cell_index[t_id]
  /\ pair[2] < t_cell_index[t_id + 1]

\* lines 1287-1294 for the face f_id at position fl_id
AssignFace(m, fl_id, f_id, t_id) ==
  IF InThreadBlock(m.l_face_cells[f_id], m.t_cell_index, t_id)
  THEN [m EXCEPT !.f_t_id[f_id] = t_id + m.g_id * m.n_i_threads,
                 !.n_t_faces[t_id] = @ + 1,
                 !.t_face_last[t_id] = fl_id]
  ELSE [m EXCEPT !.f_t_id[f_id] = -1]

\* lines 1275-1294 for the position fl_id; s holds the frame m and the
\* thread id t_id reached so far
AssignThread(s, fl_id) ==
  AdvanceThread(s.m.l_face_cells[s.m.faces_list[fl_id]][1], s.m.t_cell_index,
                s.t_id)

AssignNext(s, fl_id) ==
  [m |-> AssignFace(s.m, fl_id, s.m.faces_list[fl_id], AssignThread(s, fl_id)),
   t_id |-> AssignThread(s, fl_id)]

\* the loop on fl_id for the positions lo .. hi-1 in increasing order; the
\* range is cut in two and the first half is evaluated before the second
\* (as the one element of a set), which keeps the evaluation shallow
RECURSIVE AssignLoop(_, _, _)
AssignLoop(s, lo, hi) ==
  IF hi <= lo THEN s
  ELSE IF hi = lo + 1 THEN AssignNext(s, lo)
  ELSE CHOOSE r \in {AssignLoop(half, (lo + hi) \div 2, hi) :
                        half \in {AssignLoop(s, lo, (lo + hi) \div 2)}} : TRUE

\* lines 1266-1269
AssignReset(m) ==
  [m EXCEPT
     !.n_t_faces = [t \in DOMAIN @ |-> IF t < m.n_g_i_threads THEN 0 ELSE @[t]],
     !.t_face_last = [t \in DOMAIN @ |->
                        IF t < m.n_g_i_threads THEN m.faces_list_size
                        ELSE @[t]]]

renum_face_multipass_assign(m) ==
  AssignLoop([m |-> AssignReset(m), t_id |-> 0], 0, m.faces_list_size).m

(***************************************************************************)
(* _renum_face_multipass_g_unbalance (lines 1313-1334) returns the double  *)
(* max/mean - 1 with mean = sum/n.  The only use is the comparison of line *)
(* 1500, unbalance[1] > unbalance[0], for one n.  With a zero sum the      *)
(* value is 0/0 - 1, a NaN, and the comparison is false; otherwise it is   *)
(* the comparison of max1/sum1 with max0/sum0, decided here by cross       *)
(* multiplication (the doubles agree with it for n <= 4, sums < 12).       *)
(***************************************************************************)
RECURSIVE SumRange(_, _, _)
SumRange(f, lo, hi) ==
  IF hi <= lo THEN 0
  ELSE IF hi = lo + 1 THEN f[lo]
  ELSE SumRange(f, lo, (lo + hi) \div 2) + SumRange(f, (lo + hi) \div 2, hi)

SumUpTo(f, n) == SumRange(f, 0, n)

RECURSIVE MaxUpTo(_, _)
MaxUpTo(f, n) == IF n <= 0 THEN 0 ELSE Max2(f[n - 1], MaxUpTo(f, n - 1))

RatioGreater(max1, sum1, max0, sum0) ==
  sum1 > 0 /\ sum0 > 0 /\ max1 * sum0 > max0 * sum1

UnbalanceGreater(n, n_t_faces_1, n_t_faces_0) ==
  RatioGreater(MaxUpTo(n_t_faces_1, n), SumUpTo(n_t_faces_1, n),
               MaxUpTo(n_t_faces_0, n), SumUpTo(n_t_faces_0, n))

(***************************************************************************)
(* _renum_face_multipass_redistribute (lines 1359-1520)                    *)
(*                                                                         *)
(* CellAt is l_face_cells[faces_list[k]][0].  The scan of lines 1421-1428  *)
(* can leave fl_id_end at -1, and lines 1430-1435 then read faces_list[-1],*)
(* outside the array: what that read yields is not determined by the       *)
(* program, and stands here as the value garb.                             *)
(***************************************************************************)
CellAt(m, garb, k) ==
  IF k >= 0 /\ k < m.n_faces THEN m.l_face_cells[m.faces_list[k]][1] ELSE garb

\* n_t_faces_move *= relax, with relax = 0.5: the product truncated to int
MoveRelaxed(n_t_faces_move) ==
  IF n_t_faces_move >= 0 THEN n_t_faces_move \div 2
  ELSE -((-n_t_faces_move) \div 2)

\* for loop of lines 1421-1428: the value of fl_id_end when it ends
RECURSIVE BackScan(_, _, _, _, _)
BackScan(m, t0_c_start, f_t_id0, fl_id_end, n_t_faces_move) ==
  IF /\ fl_id_end > -1
     /\ m.l_face_cells[m.faces_list[fl_id_end]][1] >= t0_c_start
     /\ n_t_faces_move > 0
  THEN BackScan(m, t0_c_start, f_t_id0, fl_id_end - 1,
                IF m.f_t_id[m.faces_list[fl_id_end]] = f_t_id0
                THEN n_t_faces_move - 1 ELSE n_t_faces_move)
  ELSE fl_id_end

\* while loop of lines 1430-1433
RECURSIVE BackExtend(_, _, _, _)
BackExtend(m, garb, last, fl_id_end) ==
  IF /\ fl_id_end < last
     /\ CellAt(m, garb, fl_id_end + 1) = CellAt(m, garb, fl_id_end)
  THEN BackExtend(m, garb, last, fl_id_end + 1)
  ELSE fl_id_end

\* for loop of lines 1454-1461
RECURSIVE ForwardScan(_, _, _, _, _, _)
ForwardScan(m, t1_c_end, f_t_id1, fl_id_max, fl_id_end, n_t_faces_move) ==
  IF /\ fl_id_end <= fl_id_max
     /\ m.l_face_cells[m.faces_list[fl_id_end]][1] <= t1_c_end
     /\ n_t_faces_move < 0
  THEN ForwardScan(m, t1_c_end, f_t_id1, fl_id_max, fl_id_end + 1,
                   IF m.f_t_id[m.faces_list[fl_id_end]] = f_t_id1
                   THEN n_t_faces_move + 1 ELSE n_t_faces_move)
  ELSE fl_id_end

\* while loop of lines 1465-1469
RECURSIVE ForwardRetract(_, _, _)
ForwardRetract(m, last, fl_id_end) ==
  IF /\ fl_id_end >= last
     /\ fl_id_end > 0
     /\ m.l_face_cells[m.faces_list[fl_id_end]][1]
          = m.l_face_cells[m.faces_list[fl_id_end - 1]][1]
  THEN ForwardRetract(m, last, fl_id_end - 1)
  ELSE fl_id_end

\* lines 1435-1437: the boundary is only ever moved back
BackBound(bound, t1_c_start) ==
  IF bound > t1_c_start THEN t1_c_start ELSE bound

\* lines 1471-1473: the boundary is only ever moved forward
ForwardBound(bound, t0_c_start) ==
  IF bound < t0_c_start THEN t0_c_start ELSE bound

\* lines 1430-1437, with scanned the position the scan ended at
BackResult(m, garb, t_id, t_cell_index, scanned) ==
  [bound |-> BackBound(CellAt(m, garb,
                              BackExtend(m, garb, m.t_face_last[t_id], scanned))
                         + 1,
                       t_cell_index[t_id + 1]),
   oob |-> scanned < 0]

\* lines 1417-1441: the new t_cell_index[t_id+1], and whether faces_list[-1]
\* was read
ShiftBack(m, garb, t_id, t_cell_index, n_t_faces_move) ==
  BackResult(m, garb, t_id, t_cell_index,
             BackScan(m, t_cell_index[t_id], t_id + m.g_id * m.n_i_threads,
                      m.t_face_last[t_id] - 1, n_t_faces_move))

\* lines 1445-1477
ShiftForward(m, t_id, t_cell_index, n_t_faces_move) ==
  [bound |->
     ForwardBound(
       m.l_face_cells[m.faces_list[
         ForwardRetract(m, m.t_face_last[t_id],
           Min2(ForwardScan(m, t_cell_index[t_id + 2],
                            t_id + 1 + m.g_id * m.n_i_threads,
                            Min2(m.t_face_last[t_id + 1], m.faces_list_size - 1),
                            m.t_face_last[t_id], n_t_faces_move),
                m.faces_list_size - 1))]][1],
       t_cell_index[t_id]),
   oob |-> FALSE]

\* lines 1408-1413
FacesToMove(m, t_id) ==
  MoveRelaxed(m.n_t_faces[t_id]
                - (SumUpTo(m.n_t_faces, m.n_g_i_threads) \div m.n_g_i_threads))

\* one boundary, lines 1402-1477
ShiftBoundary(m, garb, t_id, t_cell_index, n_t_faces_move) ==
  IF n_t_faces_move > 0
  THEN ShiftBack(m, garb, t_id, t_cell_index, n_t_faces_move)
  ELSE IF n_t_faces_move < 0
  THEN ShiftForward(m, t_id, t_cell_index, n_t_faces_move)
  ELSE [bound |-> t_cell_index[t_id + 1], oob |-> FALSE]

\* loop of lines 1400-1479 over the thread boundaries
RECURSIVE RedistributeLoop(_, _, _, _, _)
RedistributeNext(m, garb, t_id, t_cell_index, oob, r) ==
  RedistributeLoop(m, garb, t_id + 1,
                   [t_cell_index EXCEPT ![t_id + 1] = r.bound], oob \/ r.oob)

RedistributeLoop(m, garb, t_id, t_cell_index, oob) ==
  IF t_id >= m.n_g_i_threads - 1
  THEN [t_cell_index |-> t_cell_index, oob |-> oob]
  ELSE RedistributeNext(m, garb, t_id, t_cell_index, oob,
                        ShiftBoundary(m, garb, t_id, t_cell_index,
                                      FacesToMove(m, t_id)))

\* lines 1500-1517: keep the trial assignment unless it is less balanced
RedistributeKeep(m, trial) ==
  IF UnbalanceGreater(m.n_g_i_threads, trial.n_t_faces, m.n_t_faces)
  THEN renum_face_multipass_assign([trial EXCEPT !.t_cell_index = m.t_cell_index])
  ELSE trial

\* lines 1481-1517, with r the outcome of the loop on the boundaries
RedistributeTrial(m, r) ==
  [frame |-> RedistributeKeep(m, renum_face_multipass_assign(
                                   [m EXCEPT !.t_cell_index = r.t_cell_index])),
   oob |-> r.oob]

\* the frame after the call, and whether the call read faces_list[-1]
renum_face_multipass_redistribute(m, garb) ==
  IF m.n_g_i_threads < 2 THEN [frame |-> m, oob |-> FALSE]
  ELSE RedistributeTrial(m, RedistributeLoop(m, garb, 0, m.t_cell_index, FALSE))

(***************************************************************************)
(* _renum_face_multipass_remaining (lines 1539-1580)                       *)
(***************************************************************************)
\* lines 1561-1564 with a cell numbered again each time a face meets it
MarkCellAgain(s, c_id) ==
  [s EXCEPT !.new_cell_id[c_id] = s.n_f_cells_new, !.n_f_cells_new = @ + 1]

\* lines 1561-1564 for one cell; s holds new_cell_id and n_f_cells_new
MarkCell(s, c_id) ==
  IF s.new_cell_id[c_id] < 0
  THEN [s EXCEPT !.new_cell_id[c_id] = s.n_f_cells_new,
                 !.n_f_cells_new = @ + 1]
  ELSE s

\* lines 1566-1573
NewPair(a, b) == IF a < b THEN <<a, b>> ELSE <<b, a>>

\* lines 1561-1564 for the two cells of the face at position fl_id
RemainingMarks(m, s, fl_id) ==
  MarkCell(MarkCell(s, s.l_face_cells[m.faces_list[fl_id]][1]),
           s.l_face_cells[m.faces_list[fl_id]][2])

\* lines 1566-1573 for the face at position fl_id, its cells being marked
RemainingPair(m, s, fl_id) ==
  [s EXCEPT !.l_face_cells[m.faces_list[fl_id]] =
              NewPair(s.new_cell_id[@[1]], s.new_cell_id[@[2]])]

RemainingNext(m, s, fl_id) ==
  RemainingPair(m, RemainingMarks(m, s, fl_id), fl_id)

\* the loop on fl_id for the positions lo .. hi-1 in increasing order; the
\* range is cut in two and the first half is evaluated before the second
\* (as the one element of a set), which keeps the evaluation shallow
RECURSIVE RemainingLoop(_, _, _, _)
RemainingLoop(m, s, lo, hi) ==
  IF hi <= lo THEN s
  ELSE IF hi = lo + 1 THEN RemainingNext(m, s, lo)
  ELSE CHOOSE r \in {RemainingLoop(m, half, (lo + hi) \div 2, hi) :
                        half \in {RemainingLoop(m, s, lo, (lo + hi) \div 2)}} :
         TRUE

RemainingResult(s) ==
  [n_f_cells |-> s.n_f_cells_new, l_face_cells |-> s.l_face_cells]

\* lines 1546-1554: no cell is marked yet
RemainingStart(m) ==
  [new_cell_id |-> [c \in 0..(m.n_f_cells - 1) |-> -1],
   n_f_cells_new |-> 0,
   l_face_cells |-> m.l_face_cells]

\* new_cell_id at the end of the loop of lines 1556-1575
RemainingCellIds(m) ==
  RemainingLoop(m, RemainingStart(m), 0, m.faces_list_size).new_cell_id

renum_face_multipass_remaining(m) ==
  RemainingResult(RemainingLoop(m, RemainingStart(m), 0, m.faces_list_size))

(***************************************************************************)
(* _renum_face_multipass (lines 1603-1848)                                 *)
(***************************************************************************)
\* lines 1648-1660: pairs with the lower cell id first
LowerFirst(pair) ==
  IF pair[1] < pair[2] THEN pair ELSE <<pair[2], pair[1]>>

\* lines 1672-1682 with every thread active whatever the number of faces
ActiveThreadsAll(n_i_threads, faces_list_size, min_i_subset_size) == n_i_threads

\* lines 1672-1682 with a single active thread whatever the number of faces
ActiveThreadsSerial(n_i_threads, faces_list_size, min_i_subset_size) == 1

\* lines 1672-1682
ActiveThreads(n_i_threads, faces_list_size, min_i_subset_size) ==
  IF faces_list_size \div min_i_subset_size < n_i_threads
  THEN (faces_list_size \div min_i_subset_size)
         + (IF faces_list_size % min_i_subset_size = 0 THEN 1 ELSE 0)
  ELSE n_i_threads

\* lines 1686-1692, with group_size = n_f_cells / n_i_threads; entries past
\* n_g_i_threads keep their former value
InitialCellIndex(m, n_g_i_threads) ==
  [t \in DOMAIN m.t_cell_index |->
     IF t = 0 THEN 0
     ELSE IF t < n_g_i_threads
     THEN Min2(t * (m.n_f_cells \div m.n_i_threads), m.n_f_cells)
     ELSE IF t = n_g_i_threads THEN m.n_f_cells
     ELSE m.t_cell_index[t]]

\* lines 1672-1692
PassBegin(m, n_g_i_threads) ==
  [m EXCEPT !.n_g_i_threads = n_g_i_threads,
            !.t_cell_index = InitialCellIndex(m, n_g_i_threads)]

\* lines 1723-1733: the unassigned faces move to the front of faces_list;
\* lines 1725-1729 for the position fl_id; s holds faces_list and
\* faces_list_size_new
CompactNext(m, s, fl_id) ==
  IF m.f_t_id[s.faces_list[fl_id]] < 0
  THEN [faces_list |-> [s.faces_list EXCEPT
                          ![s.faces_list_size_new] = s.faces_list[fl_id]],
        faces_list_size_new |-> s.faces_list_size_new + 1]
  ELSE s

\* the loop on fl_id for the positions lo .. hi-1 in increasing order; the
\* range is cut in two and the first half is evaluated before the second
\* (as the one element of a set), which keeps the evaluation shallow
RECURSIVE CompactLoop(_, _, _, _)
CompactLoop(m, s, lo, hi) ==
  IF hi <= lo THEN s
  ELSE IF hi = lo + 1 THEN CompactNext(m, s, lo)
  ELSE CHOOSE r \in {CompactLoop(m, half, (lo + hi) \div 2, hi) :
                        half \in {CompactLoop(m, s, lo, (lo + hi) \div 2)}} :
         TRUE

\* line 1731
CompactEnd(m, s) ==
  [m EXCEPT !.faces_list = s.faces_list,
            !.faces_list_size = s.faces_list_size_new]

CompactFaces(m) ==
  CompactEnd(m, CompactLoop(m, [faces_list |-> m.faces_list,
                                faces_list_size_new |-> 0],
                            0, m.faces_list_size))

\* lines 1735-1739 and the g_id++ of the loop, with rem the remaining call's result
PassEnd(m, rem) ==
  IF m.faces_list_size > 0
  THEN [m EXCEPT !.n_f_cells = rem.n_f_cells,
                 !.l_face_cells = rem.l_face_cells,
                 !.g_id = @ + 1]
  ELSE [m EXCEPT !.g_id = @ + 1]

PassUpdate(m) == PassEnd(m, renum_face_multipass_remaining(m))

\* lines 1721-1739, with r the result of the redistribution
PassRemaining(r) ==
  [frame |-> PassUpdate(CompactFaces(r.frame)),
   oob |-> r.oob]

\* one turn of the loop of lines 1670-1741
MultipassPass(m, min_i_subset_size, garb) ==
  PassRemaining(
    renum_face_multipass_redistribute(
      renum_face_multipass_assign(
        PassBegin(m, ActiveThreads(m.n_i_threads, m.faces_list_size,
                                   min_i_subset_size))),
      garb))

\* lines 1745-1758
LastGroup(m) ==
  IF m.faces_list_size > 0
  THEN [m EXCEPT
          !.f_t_id = [f \in DOMAIN @ |->
                        IF \E fl_id \in 0..(m.faces_list_size - 1) :
                             m.faces_list[fl_id] = f
                        THEN m.g_id * m.n_i_threads ELSE @[f]],
          !.g_id = @ + 1,
          !.n_t_faces = [t \in DOMAIN @ |->
                           IF t = 0 THEN m.faces_list_size ELSE 0]]
  ELSE m

\* lines 1774-1786
FacesKeys(i_face_cells, f_t_id) ==
  [f_id \in DOMAIN i_face_cells |->
     <<f_t_id[f_id], LowerFirst(i_face_cells[f_id])[1] - 1,
       LowerFirst(i_face_cells[f_id])[2] - 1>>]

\* index of the start of (t_id, g_id) in the table, as at line 1803
Slot(t_id, g_id, n_groups) == (t_id * n_groups + g_id) * 2

\* lines 1815-1819 with the end written as fl_id instead of fl_id + 1
MarkEndInclusive(group_index, tag, n_i_threads, n_groups, fl_id) ==
  [group_index EXCEPT
     ![Slot(tag % n_i_threads, (tag - (tag % n_i_threads)) \div n_i_threads,
            n_groups) + 1] = fl_id]

\* lines 1815-1819 for one face tag
MarkEnd(group_index, tag, n_i_threads, n_groups, fl_id) ==
  [group_index EXCEPT
     ![Slot(tag % n_i_threads, (tag - (tag % n_i_threads)) \div n_i_threads,
            n_groups) + 1] = fl_id + 1]

\* lines 1801-1821: the last position of each (thread, group) tag
\* the loop on fl_id for the positions lo .. hi-1 in increasing order; the
\* range is cut in two and the first half is evaluated before the second
\* (as the one element of a set), which keeps the evaluation shallow
RECURSIVE MarkLoop(_, _, _, _, _, _, _)
MarkLoop(group_index, faces_list, f_t_id, n_i_threads, n_groups, lo, hi) ==
  IF hi <= lo THEN group_index
  ELSE IF hi = lo + 1
  THEN MarkEnd(group_index, f_t_id[faces_list[lo]], n_i_threads, n_groups, lo)
  ELSE CHOOSE r \in {MarkLoop(half, faces_list, f_t_id, n_i_threads, n_groups,
                                 (lo + hi) \div 2, hi) :
                        half \in {MarkLoop(group_index, faces_list, f_t_id,
                                           n_i_threads, n_groups,
                                           lo, (lo + hi) \div 2)}} : TRUE

\* lines 1828-1835, g_id outer and t_id inner: k = g_id*n_i_threads + t_id
RECURSIVE StartsLoop(_, _, _, _, _)
StartsLoop(group_index, n_i_threads, n_groups, k, f_id) ==
  IF k >= n_groups * n_i_threads THEN group_index
  ELSE StartsLoop(
         [group_index EXCEPT
            ![Slot(k % n_i_threads, k \div n_i_threads, n_groups)] = f_id],
         n_i_threads, n_groups, k + 1,
         Max2(group_index[Slot(k % n_i_threads, k \div n_i_threads, n_groups) + 1],
              f_id))

\* lines 1837-1842
InvalidateEmpty(group_index) ==
  [k \in DOMAIN group_index |->
     IF k % 2 = 0 /\ group_index[k + 1] < 0 THEN -1 ELSE group_index[k]]

\* lines 1796-1842
BuildGroupIndex(n_faces, faces_list, f_t_id, n_i_threads, n_groups) ==
  InvalidateEmpty(
    StartsLoop(MarkLoop([k \in 0..(n_groups * n_i_threads * 2 - 1) |-> -1],
                        faces_list, f_t_id, n_i_threads, n_groups, 0, n_faces),
               n_i_threads, n_groups, 0, 0))

(***************************************************************************)
(* _sort_descend_tree (lines 709-734) and _sort_local (lines 746-798)      *)
(*                                                                         *)
(* number is an array on 0 .. n_elts-1.  The loops are cut in two, the     *)
(* first half being evaluated (as the one element of a set) before the     *)
(* second, which keeps the evaluation shallow.                             *)
(***************************************************************************)
\* lines 721-724: the child of level that is compared with num_save
DescendChild(number, level, n_elts) ==
  IF /\ 2 * level + 1 < n_elts - 1
     /\ number[2 * level + 2] > number[2 * level + 1]
  THEN 2 * level + 2
  ELSE 2 * level + 1

\* lines 719-735, with num_save the value that descends
RECURSIVE DescendLoop(_, _, _, _)
DescendStep(number, level, n_elts, num_save, lv_cur) ==
  IF lv_cur >= n_elts \/ num_save >= number[lv_cur]
  THEN [number EXCEPT ![level] = num_save]
  ELSE DescendLoop([number EXCEPT ![level] = number[lv_cur]], lv_cur, n_elts,
                   num_save)

DescendLoop(number, level, n_elts, num_save) ==
  IF level <= n_elts \div 2
  THEN DescendStep(number, level, n_elts, num_save,
                   DescendChild(number, level, n_elts))
  ELSE [number EXCEPT ![level] = num_save]

sort_descend_tree(number, level, n_elts) ==
  DescendLoop(number, level, n_elts, number[level])

\* line 761
RECURSIVE ShellIncrement(_, _)
ShellIncrement(n_elts, inc) ==
  IF inc <= n_elts \div 9 THEN ShellIncrement(n_elts, 3 * inc + 1) ELSE inc

\* lines 768-772: the values above num_save move up by inc
RECURSIVE ShellShift(_, _, _, _)
ShellShift(number, j, inc, num_save) ==
  IF j >= inc /\ number[j - inc] > num_save
  THEN ShellShift([number EXCEPT ![j] = number[j - inc]], j - inc, inc,
                  num_save)
  ELSE [number EXCEPT ![j] = num_save]

\* lines 765-773 for i = lo .. hi-1
RECURSIVE ShellRange(_, _, _, _)
ShellRange(number, inc, lo, hi) ==
  IF hi <= lo THEN number
  ELSE IF hi = lo + 1 THEN ShellShift(number, lo, inc, number[lo])
  ELSE CHOOSE r \in {ShellRange(half, inc, (lo + hi) \div 2, hi) :
                        half \in {ShellRange(number, inc, lo,
                                             (lo + hi) \div 2)}} : TRUE

\* lines 764-775
RECURSIVE ShellSort(_, _, _)
ShellSort(number, n_elts, inc) ==
  IF inc > 0
  THEN CHOOSE r \in {ShellSort(pass, n_elts, inc \div 3) :
                        pass \in {ShellRange(number, inc, inc, n_elts)}} : TRUE
  ELSE number

\* lines 783-787: the tree is built from level n_elts/2 - 1 down to 0; k
\* counts the turns of the loop
RECURSIVE TreeRange(_, _, _, _)
TreeRange(number, n_elts, lo, hi) ==
  IF hi <= lo THEN number
  ELSE IF hi = lo + 1
  THEN sort_descend_tree(number, (n_elts \div 2) - 1 - lo, n_elts)
  ELSE CHOOSE r \in {TreeRange(half, n_elts, (lo + hi) \div 2, hi) :
                        half \in {TreeRange(number, n_elts, lo,
                                            (lo + hi) \div 2)}} : TRUE

\* lines 792-794 for one i: the first value goes to position i
HeapSwap(number, i) ==
  [number EXCEPT ![0] = number[i], ![i] = number[0]]

\* lines 791-796 for i from n_elts - 1 down to 1; k counts the turns
RECURSIVE HeapRange(_, _, _, _)
HeapRange(number, n_elts, lo, hi) ==
  IF hi <= lo THEN number
  ELSE IF hi = lo + 1
  THEN CHOOSE r \in {sort_descend_tree(swapped, 0, n_elts - 1 - lo) :
                        swapped \in {HeapSwap(number, n_elts - 1 - lo)}} : TRUE
  ELSE CHOOSE r \in {HeapRange(half, n_elts, (lo + hi) \div 2, hi) :
                        half \in {HeapRange(number, n_elts, lo,
                                            (lo + hi) \div 2)}} : TRUE

\* lines 779-797
HeapSort(number, n_elts) ==
  CHOOSE r \in {HeapRange(tree, n_elts, 0, n_elts - 1) :
                  tree \in {TreeRange(number, n_elts, 0, n_elts \div 2)}} : TRUE

\* lines 746-798
sort_local(number, n_elts) ==
  IF n_elts < 2 THEN number
  ELSE IF n_elts < 20 THEN ShellSort(number, n_elts, ShellIncrement(n_elts, 1))
  ELSE HeapSort(number, n_elts)

(***************************************************************************)
(* _csr_graph_create (lines 812-926)                                       *)
(*                                                                         *)
(* face_cell is the flat array of 2 * n_faces cell numbers counted from 1  *)
(* that the function reads (lines 841-842); the rows and the column ids    *)
(* of the graph count from 0.                                              *)
(***************************************************************************)
\* lines 837-845: the number of entries of face_cell that name cell c
CellEntryCount(n_faces, face_cell, c) ==
  Cardinality({k \in 0..(2 * n_faces - 1) : face_cell[k] - 1 = c})

CellEntryCounts(n_rows, n_faces, face_cell) ==
  [c \in 0..(n_rows - 1) |-> CellEntryCount(n_faces, face_cell, c)]

\* lines 847-857: the largest count
LargestCount(ccount, n_rows) ==
  CHOOSE m \in {0} \cup {ccount[c] : c \in 0..(n_rows - 1)} :
    \A c \in 0..(n_rows - 1) : ccount[c] <= m

\* lines 849-855
CellRowIndex(ccount, n_rows) == [ii \in 0..n_rows |-> SumUpTo(ccount, ii)]

\* lines 866-869 for one face; s holds col_id and ccount
FillCell(s, row_index, ii, jj) ==
  [col_id |-> [s.col_id EXCEPT ![row_index[ii] + s.ccount[ii]] = jj],
   ccount |-> [s.ccount EXCEPT ![ii] = @ + 1]]

FillCellsNext(s, row_index, face_cell, f_id) ==
  CHOOSE r \in {FillCell(h, row_index, face_cell[2 * f_id + 1] - 1,
                         face_cell[2 * f_id] - 1) :
                  h \in {FillCell(s, row_index, face_cell[2 * f_id] - 1,
                                  face_cell[2 * f_id + 1] - 1)}} : TRUE

\* lines 863-870 for the faces lo .. hi-1
RECURSIVE FillCellsRange(_, _, _, _, _)
FillCellsRange(s, row_index, face_cell, lo, hi) ==
  IF hi <= lo THEN s
  ELSE IF hi = lo + 1 THEN FillCellsNext(s, row_index, face_cell, lo)
  ELSE CHOOSE r \in {FillCellsRange(half, row_index, face_cell,
                                    (lo + hi) \div 2, hi) :
                        half \in {FillCellsRange(s, row_index, face_cell, lo,
                                                 (lo + hi) \div 2)}} : TRUE

\* lines 861-870, the entries not written yet being shown as -1
FilledColId(n_rows, row_index, n_faces, face_cell) ==
  FillCellsRange([col_id |-> [k \in 0..(row_index[n_rows] - 1) |-> -1],
                  ccount |-> [c \in 0..(n_rows - 1) |-> 0]],
                 row_index, face_cell, 0, n_faces).col_id

\* the row ii of col_id as an array of its own
RowSlice(col_id, row_index, ii) ==
  [k \in 0..(row_index[ii + 1] - row_index[ii] - 1) |->
     col_id[row_index[ii] + k]]

\* lines 879-887 for row ii, with sorted the row as _sort_local leaves it;
\* s holds col_id and unique_faces
SortedRow(s, row_index, ii, sorted) ==
  [col_id |-> [k \in DOMAIN s.col_id |->
                 IF row_index[ii] <= k /\ k < row_index[ii + 1]
                 THEN sorted[k - row_index[ii]] ELSE s.col_id[k]],
   unique_faces |->
     /\ s.unique_faces
     /\ \A jj \in 0..(row_index[ii + 1] - row_index[ii] - 1) :
          sorted[jj] # (IF jj = 0 THEN -1 ELSE sorted[jj - 1])]

SortRow(s, row_index, ii) ==
  CHOOSE r \in {SortedRow(s, row_index, ii, sorted) :
                  sorted \in {sort_local(RowSlice(s.col_id, row_index, ii),
                                         row_index[ii + 1] - row_index[ii])}} :
    TRUE

\* lines 878-888 for the rows lo .. hi-1
RECURSIVE SortRowsRange(_, _, _, _)
SortRowsRange(s, row_index, lo, hi) ==
  IF hi <= lo THEN s
  ELSE IF hi = lo + 1 THEN SortRow(s, row_index, lo)
  ELSE CHOOSE r \in {SortRowsRange(half, row_index, (lo + hi) \div 2, hi) :
                        half \in {SortRowsRange(s, row_index, lo,
                                                (lo + hi) \div 2)}} : TRUE

\* lines 876-890
SortRows(col_id, row_index, n_rows, n_cols_max) ==
  IF n_cols_max > 1
  THEN SortRowsRange([col_id |-> col_id, unique_faces |-> TRUE], row_index,
                     0, n_rows)
  ELSE [col_id |-> col_id, unique_faces |-> TRUE]

\* the step of CompactEntry that keeps every entry
CompactEntryKeeping(s, k) ==
  [s EXCEPT !.col_id[s.kk] = s.col_id[k],
            !.kk = @ + 1,
            !.col_id_prev = s.col_id[k]]

\* lines 910-913 for the entry at position k of col_id; s holds col_id,
\* row_index, kk and col_id_prev
CompactEntry(s, k) ==
  IF s.col_id_prev # s.col_id[k]
  THEN [s EXCEPT !.col_id[s.kk] = s.col_id[k],
                 !.kk = @ + 1,
                 !.col_id_prev = s.col_id[k]]
  ELSE s

\* lines 909-914 for the positions lo .. hi-1 of col_id
RECURSIVE CompactEntries(_, _, _)
CompactEntries(s, lo, hi) ==
  IF hi <= lo THEN s
  ELSE IF hi = lo + 1 THEN CompactEntry(s, lo)
  ELSE CHOOSE r \in {CompactEntries(half, (lo + hi) \div 2, hi) :
                        half \in {CompactEntries(s, lo, (lo + hi) \div 2)}} :
         TRUE

\* lines 905-914 for row ii: the row starts at kk and keeps one entry for
\* each value
CompactRow(s, ii) ==
  CompactEntries([s EXCEPT !.row_index[ii] = s.kk, !.col_id_prev = -1],
                 s.row_index[ii], s.row_index[ii + 1])

\* lines 904-915 for the rows lo .. hi-1
RECURSIVE CompactRows(_, _, _)
CompactRows(s, lo, hi) ==
  IF hi <= lo THEN s
  ELSE IF hi = lo + 1 THEN CompactRow(s, lo)
  ELSE CHOOSE r \in {CompactRows(half, (lo + hi) \div 2, hi) :
                        half \in {CompactRows(s, lo, (lo + hi) \div 2)}} : TRUE

\* lines 916-921: the last index and the shorter col_id
ShortenColId(s, n_rows) ==
  [row_index |-> [s.row_index EXCEPT ![n_rows] = s.kk],
   col_id |-> [k \in 0..(s.kk - 1) |-> s.col_id[k]]]

\* lines 894-923
CompactGraph(col_id, row_index, n_rows, unique_faces) ==
  IF unique_faces THEN [row_index |-> row_index, col_id |-> col_id]
  ELSE ShortenColId(CompactRows([col_id |-> col_id, row_index |-> row_index,
                                 kk |-> 0, col_id_prev |-> -1], 0, n_rows),
                    n_rows)

\* lines 857-925 once the counts are known
GraphOfCounts(n_rows, n_faces, face_cell, ccount) ==
  CHOOSE g \in
    {[n_rows |-> n_rows,
      n_cols_max |-> LargestCount(ccount, n_rows),
      row_index |-> c.row_index,
      col_id |-> c.col_id] :
       c \in {CompactGraph(s.col_id, CellRowIndex(ccount, n_rows), n_rows,
                           s.unique_faces) :
                s \in {SortRows(filled, CellRowIndex(ccount, n_rows), n_rows,
                                LargestCount(ccount, n_rows)) :
                         filled \in {FilledColId(n_rows,
                                        CellRowIndex(ccount, n_rows),
                                        n_faces, face_cell)}}}} : TRUE

\* lines 812-926
csr_graph_create(n_cells_ext, n_faces, face_cell) ==
  CHOOSE g \in {GraphOfCounts(n_cells_ext, n_faces, face_cell, ccount) :
                  ccount \in {CellEntryCounts(n_cells_ext, n_faces,
                                              face_cell)}} : TRUE

(***************************************************************************)
(* _csr_graph_create_cell_face (lines 940-1002): row c of the graph lists  *)
(* the faces adjacent to cell c, in increasing face order                  *)
(***************************************************************************)
\* lines 967-972: ccount[c] after the counting loop
CellFaceCount(n_faces, face_cell, c) ==
  Cardinality({e \in (0..(n_faces - 1)) \X {1, 2} : face_cell[e[1]][e[2]] = c})

\* lines 976-982
RECURSIVE RowIndex(_, _, _)
RowIndex(n_faces, face_cell, ii) ==
  IF ii = 0 THEN 0
  ELSE RowIndex(n_faces, face_cell, ii - 1)
         + CellFaceCount(n_faces, face_cell, ii - 1)

\* lines 990-997: the entries of face f_id and the faces before it
RECURSIVE FillColId(_, _, _, _, _)
FillRow(g, row_index, c, f_id) ==
  [col_id |-> [g.col_id EXCEPT ![row_index[c] + g.ccount[c]] = f_id],
   ccount |-> [g.ccount EXCEPT ![c] = @ + 1]]

\* the two entries of a face, the first being written (evaluated as the
\* one element of a set) before the second
FillFace(g, row_index, pair, f_id) ==
  CHOOSE r \in {FillRow(h, row_index, pair[2], f_id) :
                  h \in {FillRow(g, row_index, pair[1], f_id)}} : TRUE

FillColId(n_rows, n_cols, row_index, face_cell, f_id) ==
  IF f_id < 0
  THEN [col_id |-> [k \in 0..(n_cols - 1) |-> -1],
        ccount |-> [c \in 0..(n_rows - 1) |-> 0]]
  ELSE CHOOSE r \in {FillFace(g, row_index, face_cell[f_id], f_id) :
                        g \in {FillColId(n_rows, n_cols, row_index, face_cell,
                                         f_id - 1)}} : TRUE

CsrGraph(n_rows, row_index, n_faces, face_cell) ==
  [n_rows |-> n_rows,
   row_index |-> row_index,
   col_id |-> FillColId(n_rows, row_index[n_rows], row_index, face_cell,
                        n_faces - 1).col_id]

csr_graph_create_cell_face(n_cells_ext, n_faces, face_cell) ==
  CsrGraph(n_cells_ext,
           [ii \in 0..n_cells_ext |-> RowIndex(n_faces, face_cell, ii)],
           n_faces, face_cell)

(***************************************************************************)
(* _independent_face_groups (lines 1045-1164)                              *)
(*                                                                         *)
(* s holds the locals of the function: face_marker, old_to_new,            *)
(* first_unmarked_face_id, n_marked_faces, group_id, group_size,           *)
(* group_face_ids and g_size.                                              *)
(***************************************************************************)
\* lines 1106-1117 with the loop on j stopping after the first cell
InFirstRowOf(cell_faces, pair, f_id) ==
  \E k \in cell_faces.row_index[pair[1]]
             ..(cell_faces.row_index[pair[1] + 1] - 1) :
    cell_faces.col_id[k] = f_id

\* lines 1106-1117: f_id is in the row of one of the two cells of f_cmp
InRowsOf(cell_faces, pair, f_id) ==
  \E j \in 1..2 :
    \E k \in cell_faces.row_index[pair[j]]
               ..(cell_faces.row_index[pair[j] + 1] - 1) :
      cell_faces.col_id[k] = f_id

\* lines 1101-1119
FaceOk(cell_faces, face_cell, s, f_id) ==
  \A i \in 0..(s.g_size - 1) :
    ~InRowsOf(cell_faces, face_cell[s.group_face_ids[i]], f_id)

\* lines 1123-1129 with the new face id counted from the start of the group
GroupAddLocal(s, f_id) ==
  [s EXCEPT !.first_unmarked_face_id = IF @ = f_id THEN f_id + 1 ELSE @,
            !.face_marker[f_id] = s.group_id,
            !.group_face_ids[s.g_size] = f_id,
            !.g_size = @ + 1,
            !.old_to_new[f_id] = s.g_size,
            !.n_marked_faces = @ + 1]

\* lines 1123-1129 with first_unmarked_face_id moved past every face added
GroupAddSkipping(s, f_id) ==
  [s EXCEPT !.first_unmarked_face_id = f_id + 1,
            !.face_marker[f_id] = s.group_id,
            !.group_face_ids[s.g_size] = f_id,
            !.g_size = @ + 1,
            !.old_to_new[f_id] = s.n_marked_faces,
            !.n_marked_faces = @ + 1]

\* lines 1123-1129
GroupAdd(s, f_id) ==
  [s EXCEPT !.first_unmarked_face_id = IF @ = f_id THEN f_id + 1 ELSE @,
            !.face_marker[f_id] = s.group_id,
            !.group_face_ids[s.g_size] = f_id,
            !.g_size = @ + 1,
            !.old_to_new[f_id] = s.n_marked_faces,
            !.n_marked_faces = @ + 1]

\* lines 1094-1138; the locals after the test of a face are evaluated (as
\* the one element of a set) before the scan goes on
RECURSIVE GroupScan(_, _, _, _, _, _)
GroupScanNext(cell_faces, face_cell, n_faces, max_group_size, s, f_id) ==
  IF s.g_size = max_group_size THEN s
  ELSE GroupScan(cell_faces, face_cell, n_faces, max_group_size, s, f_id + 1)

GroupScan(cell_faces, face_cell, n_faces, max_group_size, s, f_id) ==
  IF f_id >= n_faces THEN s
  ELSE IF s.face_marker[f_id] = -1
  THEN CHOOSE r \in {GroupScanNext(cell_faces, face_cell, n_faces,
                                    max_group_size, t, f_id) :
                        t \in {IF FaceOk(cell_faces, face_cell, s, f_id)
                               THEN GroupAdd(s, f_id) ELSE s}} : TRUE
  ELSE GroupScan(cell_faces, face_cell, n_faces, max_group_size, s, f_id + 1)

\* lines 1087-1092
GroupStart(s, max_group_size) ==
  [s EXCEPT !.g_size = 0,
            !.group_face_ids = [i \in 0..(max_group_size - 1) |-> -1]]

\* lines 1140-1144
GroupClose(s) ==
  [s EXCEPT !.group_size = [g \in 0..s.group_id |->
                              IF g = s.group_id THEN s.g_size ELSE @[g]],
            !.group_id = @ + 1]

\* lines 1087-1144: one turn of the loop of line 1085
GroupsTurn(cell_faces, face_cell, n_faces, max_group_size, s) ==
  CHOOSE r \in {GroupClose(t) :
                  t \in {GroupScan(cell_faces, face_cell, n_faces,
                                   max_group_size,
                                   GroupStart(s, max_group_size),
                                   s.first_unmarked_face_id)}} : TRUE

\* lines 1085-1146
RECURSIVE GroupsLoop(_, _, _, _, _)
GroupsLoop(cell_faces, face_cell, n_faces, max_group_size, s) ==
  IF s.n_marked_faces = n_faces THEN s
  ELSE GroupsLoop(cell_faces, face_cell, n_faces, max_group_size,
                  GroupsTurn(cell_faces, face_cell, n_faces, max_group_size, s))

\* lines 1059-1083
GroupsInit(n_faces, max_group_size) ==
  [face_marker |-> [f_id \in 0..(n_faces - 1) |-> -1],
   old_to_new |-> [f_id \in 0..(n_faces - 1) |-> f_id],
   first_unmarked_face_id |-> 0,
   n_marked_faces |-> 0,
   group_id |-> 0,
   group_size |-> EmptyArr,
   group_face_ids |-> [i \in 0..(max_group_size - 1) |-> -1],
   g_size |-> 0]

\* lines 1157-1163: new_to_old[old_to_new[f_id]] = f_id for increasing
\* f_id; an entry that is not written keeps the value the caller gave it
\* (line 2724)
GroupsResult(s, n_faces) ==
  [new_to_old |-> [k \in 0..(n_faces - 1) |->
                     IF \E f_id \in 0..(n_faces - 1) : s.old_to_new[f_id] = k
                     THEN LastWritten(s.old_to_new, n_faces, k) ELSE k],
   n_groups |-> s.group_id,
   group_size |-> s.group_size]

independent_face_groups(max_group_size, n_cells_ext, n_faces, face_cell) ==
  GroupsResult(
    GroupsLoop(csr_graph_create_cell_face(n_cells_ext, n_faces, face_cell),
               face_cell, n_faces, max_group_size,
               GroupsInit(n_faces, max_group_size)),
    n_faces)

(***************************************************************************)
(* _thread_bounds_by_group_size (lines 1180-1227)                          *)
(***************************************************************************)
\* lines 1201-1207: threads k .. n_threads-1 of a group that is split
RECURSIVE SplitThreads(_, _, _, _, _, _, _)
SplitThreads(b, n_groups, n_threads, group_id, j, jr, k) ==
  IF k >= n_threads THEN b
  ELSE SplitThreads(
         [group_index |->
            [b.group_index EXCEPT
               ![Slot(k, group_id, n_groups)] = b.ip,
               ![Slot(k, group_id, n_groups) + 1] =
                  b.ip + j + (IF k < jr THEN 1 ELSE 0)],
          ip |-> b.ip + j + (IF k < jr THEN 1 ELSE 0)],
         n_groups, n_threads, group_id, j, jr, k + 1)

\* lines 1211-1218: the whole group goes to thread 0
SingleThread(b, n_groups, n_threads, group_id, g_size) ==
  [group_index |->
     [s \in DOMAIN b.group_index |->
        IF s = Slot(0, group_id, n_groups) THEN b.ip
        ELSE IF s = Slot(0, group_id, n_groups) + 1 THEN b.ip + g_size
        ELSE IF \E k \in 1..(n_threads - 1) :
                  s \in {Slot(k, group_id, n_groups),
                         Slot(k, group_id, n_groups) + 1}
        THEN 0
        ELSE b.group_index[s]],
   ip |-> b.ip + g_size]

\* lines 1195-1219 with a group split from 4 faces per thread on
BoundsOfGroupFromFour(b, n_groups, n_threads, group_id, g_size) ==
  IF g_size \div n_threads >= 4
  THEN SplitThreads(b, n_groups, n_threads, group_id,
                    g_size \div n_threads, g_size % n_threads, 0)
  ELSE SingleThread(b, n_groups, n_threads, group_id, g_size)

\* lines 1195-1219
BoundsOfGroup(b, n_groups, n_threads, group_id, g_size) ==
  IF g_size \div n_threads > 4
  THEN SplitThreads(b, n_groups, n_threads, group_id,
                    g_size \div n_threads, g_size % n_threads, 0)
  ELSE SingleThread(b, n_groups, n_threads, group_id, g_size)

\* lines 1190-1221; the table is written entry by entry, and what has not
\* been written is shown as -1
RECURSIVE BoundsLoop(_, _, _, _)
BoundsLoop(n_groups, n_threads, group_size, group_id) ==
  IF group_id < 0
  THEN [group_index |-> [s \in 0..(n_threads * n_groups * 2 - 1) |-> -1],
        ip |-> 0]
  ELSE BoundsOfGroup(BoundsLoop(n_groups, n_threads, group_size, group_id - 1),
                     n_groups, n_threads, group_id, group_size[group_id])

\* lines 1223-1226
BoundsResult(b, n_faces) ==
  [group_index |-> b.group_index,
   retval |-> IF b.ip # n_faces THEN -1 ELSE 0]

thread_bounds_by_group_size(n_faces, n_groups, n_threads, group_size) ==
  BoundsResult(BoundsLoop(n_groups, n_threads, group_size, n_groups - 1),
               n_faces)

(***************************************************************************)
(* _renum_i_faces_no_share_cell_in_block (lines 1867-1907)                 *)
(***************************************************************************)
\* the quotient of C, which rounds toward zero
CDiv(a, b) ==
  IF b > 0 THEN a \div b ELSE -(a \div (-b))

\* lines 1879-1881
RECURSIVE ShrinkGroupSize(_, _, _, _)
ShrinkGroupSize(n_i_faces, n_i_threads, min_i_subset_size, max_group_size) ==
  IF /\ CDiv(n_i_faces, max_group_size) < 2 * n_i_threads
     /\ max_group_size > min_i_subset_size
  THEN ShrinkGroupSize(n_i_faces, n_i_threads, min_i_subset_size,
                       max_group_size - 64)
  ELSE max_group_size

\* lines 1879-1886
BlockGroupSize(n_i_faces, n_i_threads, min_i_subset_size, max_group_size) ==
  Max2(Max2(ShrinkGroupSize(n_i_faces, n_i_threads, min_i_subset_size,
                            max_group_size),
            min_i_subset_size),
       n_i_threads * 2)

\* lines 1896-1906
BlockBounds(msh, n_i_threads, groups) ==
  [new_to_old |-> groups.new_to_old,
   n_groups |-> groups.n_groups,
   group_size |-> groups.group_size,
   bounds |-> thread_bounds_by_group_size(msh.n_i_faces, groups.n_groups,
                                          n_i_threads, groups.group_size)]

renum_i_faces_no_share_cell_in_block(msh, n_i_threads, min_i_subset_size, max_group_size) ==
  BlockBounds(msh, n_i_threads,
              independent_face_groups(
                BlockGroupSize(msh.n_i_faces, n_i_threads, min_i_subset_size,
                               max_group_size),
                msh.n_cells_with_ghosts, msh.n_i_faces, msh.i_face_cells))

(***************************************************************************)
(* _renum_b_faces_no_share_cell_across_thread (lines 1931-2012)            *)
(***************************************************************************)
\* lines 1956-1959
BFaceKeys(b_face_cells) ==
  [ii \in DOMAIN b_face_cells |-> <<b_face_cells[ii], ii>>]

\* lines 1974-1977
\* lines 1974-1977 without the rounding up of line 1975-1976
SubsetSizeFloor(n_b_faces, n_b_threads, min_subset_size) ==
  Max2(n_b_faces \div n_b_threads, min_subset_size)

SubsetSize(n_b_faces, n_b_threads, min_subset_size) ==
  Max2((n_b_faces \div n_b_threads)
         + (IF n_b_faces % n_b_threads > 0 THEN 1 ELSE 0),
       min_subset_size)

\* lines 1995-2001 with a loop that never runs
PushEndNever(n_b_faces, b_face_cells, new_to_old_b, c_id, end_id) == end_id

\* lines 1995-2001
RECURSIVE PushEnd(_, _, _, _, _)
PushEnd(n_b_faces, b_face_cells, new_to_old_b, c_id, end_id) ==
  IF b_face_cells[new_to_old_b[end_id]] = c_id
  THEN IF end_id + 1 < n_b_faces
       THEN PushEnd(n_b_faces, b_face_cells, new_to_old_b, c_id, end_id + 1)
       ELSE end_id + 1
  ELSE end_id

\* lines 1989-2002
AdjustEnd(n_b_faces, b_face_cells, new_to_old_b, end_id) ==
  IF end_id > n_b_faces THEN n_b_faces
  ELSE IF end_id > 0 /\ end_id < n_b_faces
  THEN PushEnd(n_b_faces, b_face_cells, new_to_old_b,
               b_face_cells[new_to_old_b[end_id - 1]], end_id)
  ELSE end_id

\* lines 2004-2005
SetThread(b, t_id, end_id) ==
  [group_index |-> [b.group_index EXCEPT ![t_id * 2] = b.end_id,
                                         ![t_id * 2 + 1] = end_id],
   end_id |-> end_id]

\* lines 1981-2006 for thread t_id, b holding the table and end_id
BoundaryThread(b, msh, new_to_old_b, subset_size, t_id) ==
  SetThread(b, t_id,
            AdjustEnd(msh.n_b_faces, msh.b_face_cells, new_to_old_b,
                      Max2((t_id + 1) * subset_size, b.end_id)))

RECURSIVE BoundaryLoop(_, _, _, _, _)
BoundaryLoop(msh, new_to_old_b, n_b_threads, subset_size, t_id) ==
  IF t_id < 0
  THEN [group_index |-> [s \in 0..(n_b_threads * 2 - 1) |-> -1],
        end_id |-> 0]
  ELSE BoundaryThread(BoundaryLoop(msh, new_to_old_b, n_b_threads,
                                   subset_size, t_id - 1),
                      msh, new_to_old_b, subset_size, t_id)

\* order is the ordering of the faces that the sorter returned (line 1961)
renum_b_faces_no_share_cell_across_thread(msh, n_b_threads, min_subset_size, order) ==
  [new_to_old |-> order,
   n_groups |-> 1,
   group_index |->
     BoundaryLoop(msh, order, n_b_threads,
                  SubsetSize(msh.n_b_faces, n_b_threads, min_subset_size),
                  n_b_threads - 1).group_index,
   retval |-> IF msh.n_b_faces < 1 THEN -1 ELSE 0]

(***************************************************************************)
(* Meshes and settings the functions are called with                       *)
(***************************************************************************)
Identity(n) == [i \in 0..(n - 1) |-> i]

FacePairs == {<<a, b>> : a \in 0..(MaxFaceCells - 1), b \in 0..(MaxFaceCells - 1)}
               \ {<<a, a>> : a \in 0..(MaxFaceCells - 1)}

\* face -> cells arrays in lexical order of the cell pairs, two cells
\* sharing at most MaxSharedFaces faces ...
OrderedFaceArrays ==
  UNION {{a \in [0..(n - 1) -> {p \in FacePairs : p[1] < p[2]}] :
            /\ \A i \in 0..(n - 2) : LexLE(a[i], a[i + 1])
            /\ \A i \in 0..(n - 1 - MaxSharedFaces) :
                  a[i] # a[i + MaxSharedFaces]} : n \in 0..MaxFaces}

\* ... in which every other face lists its higher cell first
Oriented(a) ==
  [i \in DOMAIN a |-> IF i % 2 = 1 THEN <<a[i][2], a[i][1]>> ELSE a[i]]

IFaceArrays == {Oriented(a) : a \in OrderedFaceArrays}

CellCounts == {MaxFaceCells, MaxFaceCells + MaxExtraCells}

ThreadCounts == {2, 3}

MinSubsetSizes == {1, 2, 64}

NoNumbering == [type |-> "none"]

NoList == [idx |-> EmptyArr, lst |-> Null]

\* the fields of cs_mesh_t that the renumbering reads or writes, for a mesh
\* that has neither vertex lists, families, global numbers nor an extended
\* neighbourhood.  i_face_vtx holds i_face_vtx_idx and i_face_vtx_lst,
\* b_face_vtx and cell_cells likewise.
BareMesh(n_cells, n_cells_with_ghosts, i_face_cells, b_face_cells) ==
  [n_cells |-> n_cells,
   n_cells_with_ghosts |-> n_cells_with_ghosts,
   n_i_faces |-> Cardinality(DOMAIN i_face_cells),
   n_b_faces |-> Cardinality(DOMAIN b_face_cells),
   i_face_cells |-> i_face_cells,
   b_face_cells |-> b_face_cells,
   i_face_vtx |-> NoList,
   b_face_vtx |-> NoList,
   cell_cells |-> NoList,
   i_face_family |-> Null,
   b_face_family |-> Null,
   cell_family |-> Null,
   global_i_face_num |-> Null,
   global_b_face_num |-> Null,
   global_cell_num |-> Null,
   i_face_numbering |-> NoNumbering,
   b_face_numbering |-> NoNumbering]

\* a mesh with the given cells and interior faces and nothing else
IMesh(n_cells_with_ghosts, i_face_cells) ==
  BareMesh(n_cells_with_ghosts, n_cells_with_ghosts, i_face_cells, EmptyArr)

\* a mesh with the given cells and boundary faces and nothing else
BMesh(n_cells, b_face_cells) ==
  BareMesh(n_cells, n_cells, EmptyArr, b_face_cells)

NoMesh == IMesh(0, EmptyArr)

\* n faces between n disjoint pairs of cells; a chain of n + 1 cells
PairedFaces(n) == [f \in 0..(n - 1) |-> <<2 * f, 2 * f + 1>>]

ChainFaces(n) == [f \in 0..(n - 1) |-> <<f, f + 1>>]

\* the interior meshes: the enumerated ones and two regular families
IMeshes ==
  {IMesh(n_cells, a) : n_cells \in CellCounts, a \in IFaceArrays}
    \cup {IMesh(2 * n, PairedFaces(n)) : n \in 0..MaxBlockFaces}
    \cup {IMesh(n + 1, ChainFaces(n)) : n \in 0..MaxBlockFaces}

BlockMinSubsetSizes == {1, MaxBlockFaces, 64}

\* boundary face -> cell arrays, in any order
BFaceArrays ==
  UNION {[0..(n - 1) -> 0..(MaxFaceCells - 1)] : n \in 0..MaxFaces}

BThreadCounts == {1, 2, 3}

\* the permutations of 0..n-1 and, for a pointer argument, NULL
Perms(n) ==
  {p \in [0..(n - 1) -> 0..(n - 1)] :
     \A i \in 0..(n - 1), j \in 0..(n - 1) : p[i] = p[j] => i = j}

PermsOrNull(n) == {Null} \cup {Arr(p) : p \in Perms(n)}

Inverse(p) == [k \in DOMAIN p |-> CHOOSE i \in DOMAIN p : p[i] = k]

InverseOrNull(p) == IF p.null THEN p ELSE Arr(Inverse(p.a))

\* n entries of 1 or 2 values each, all values different: the index counts
\* from 1, entry f has 1 + f % 2 values
TaggedList(n, first) ==
  [idx |-> [f \in 0..n |-> 1 + f + (f \div 2)],
   lst |-> Arr([k \in 0..(n + (n \div 2) - 1) |-> first + k])]

\* an extended neighbourhood: cell ids counted from 1
Neighbours(n_cells, n_cells_with_ghosts) ==
  [idx |-> [c \in 0..n_cells |-> 1 + c + (c \div 2)],
   lst |-> Arr([k \in 0..(n_cells + (n_cells \div 2) - 1) |->
                  ((k + 1) % n_cells_with_ghosts) + 1])]

Tagged(n, first) == Arr([i \in 0..(n - 1) |-> first + i])

\* the mesh msh with vertex lists, families, global numbers and an extended
\* neighbourhood
WithLists(msh) ==
  [msh EXCEPT
     !.i_face_vtx = TaggedList(msh.n_i_faces, 1),
     !.b_face_vtx = TaggedList(msh.n_b_faces, 21),
     !.cell_cells = Neighbours(msh.n_cells, msh.n_cells_with_ghosts),
     !.i_face_family = Tagged(msh.n_i_faces, 2),
     !.b_face_family = Tagged(msh.n_b_faces, 12),
     !.cell_family = Tagged(msh.n_cells, 22),
     !.global_i_face_num = Tagged(msh.n_i_faces, 31),
     !.global_b_face_num = Tagged(msh.n_b_faces, 41),
     !.global_cell_num = Tagged(msh.n_cells, 51)]

\* boundary faces that go round the local cells
RoundFaces(n, first, n_cells) == [f \in 0..(n - 1) |-> (first + f) % n_cells]

\* the meshes that are rewritten: MaxFaceCells cells of which the last may
\* be a ghost, a chain of interior faces, boundary faces on local cells
PlainMeshes ==
  {BareMesh(n_cells, MaxFaceCells, Oriented(ChainFaces(n_i)),
            RoundFaces(n_b, first, n_cells)) :
     n_cells \in {MaxFaceCells - 1, MaxFaceCells}, n_i \in 0..MaxFaces,
     n_b \in 0..MaxFaces, first \in {0, 1}}

RMeshes == PlainMeshes \cup {WithLists(msh) : msh \in PlainMeshes}

\* the settings as initialised at lines 128-133
InitialCfg ==
  [n_threads |-> 0, min_i_subset_size |-> 64, min_b_subset_size |-> 64,
   i_faces_algorithm |-> "MULTIPASS"]

NoFrame ==
  [n_faces |-> 0, n_i_threads |-> 0, faces_list |-> EmptyArr,
   faces_list_size |-> 0, l_face_cells |-> EmptyArr, f_t_id |-> EmptyArr,
   n_f_cells |-> 0, g_id |-> 0, n_g_i_threads |-> 0,
   t_cell_index |-> EmptyArr, n_t_faces |-> EmptyArr,
   t_face_last |-> EmptyArr]

\* nothing remembered
\* what a call of cs_renumber_mesh finds around it: the thread count of the
\* process and the value of the environment variable CS_RENUMBER
NoEnv == [caller |-> "none", cs_glob_n_threads |-> 1, CS_RENUMBER |-> "unset"]

NoHistory ==
  [mesh |-> NoMesh, new_to_old_i |-> Null, new_to_old_b |-> Null,
   new_to_old_c |-> Null, env |-> NoEnv, cfg |-> InitialCfg]

NoOutput ==
  [producer |-> "none", caller |-> "none", retval |-> 0, n_threads |-> 0,
   new_to_old |-> EmptyArr, n_groups |-> 0, group_index |-> EmptyArr,
   group_size |-> EmptyArr]

\* what the caller hands to an index producer (lines 2696-2728): an identity
\* permutation, one group, no index
CallerOutput(producer, n_threads, n_faces) ==
  [producer |-> producer, caller |-> "none", retval |-> 0,
   n_threads |-> n_threads,
   new_to_old |-> Identity(n_faces), n_groups |-> 1, group_index |-> EmptyArr,
   group_size |-> EmptyArr]

\* lines 1613-1666, once the ordering of the faces is chosen
MultipassFrame(msh, n_i_threads, faces_list) ==
  [n_faces |-> msh.n_i_faces,
   n_i_threads |-> n_i_threads,
   faces_list |-> faces_list,
   faces_list_size |-> msh.n_i_faces,
   l_face_cells |-> [f \in DOMAIN msh.i_face_cells |->
                       LowerFirst(msh.i_face_cells[f])],
   f_t_id |-> [f \in DOMAIN msh.i_face_cells |-> -1],
   n_f_cells |-> msh.n_cells_with_ghosts,
   g_id |-> 0,
   n_g_i_threads |-> 0,
   t_cell_index |-> [t \in 0..n_i_threads |-> 0],
   n_t_faces |-> [t \in 0..(n_i_threads - 1) |-> 0],
   t_face_last |-> [t \in 0..(n_i_threads - 1) |-> 0]]

(***************************************************************************)
(* _renumber_for_threads: what follows the interior and boundary producers *)
(***************************************************************************)
\* the numbering that cs_numbering_create_threaded builds
cs_numbering_create_threaded(n_threads, n_groups, group_index) ==
  [type |-> "threaded", n_threads |-> n_threads, n_groups |-> n_groups,
   group_index |-> group_index]

\* what the function keeps of a producer's result whatever its status
FaceOutcomeKept(retval, n_threads, n_groups, group_index, new_to_old) ==
  [n_groups |-> n_groups, n_threads |-> n_threads,
   group_index |-> group_index, new_to_old |-> Arr(new_to_old)]

\* lines 2762-2769 (2795-2802 for the boundary faces) with the release of
\* the permutation at lines 2825-2829: a producer that failed leaves one
\* group, one thread, no index and no permutation
FaceOutcome(retval, n_threads, n_groups, group_index, new_to_old) ==
  IF retval # 0
  THEN [n_groups |-> 1, n_threads |-> 1, group_index |-> EmptyArr,
        new_to_old |-> Null]
  ELSE FaceOutcomeKept(retval, n_threads, n_groups, group_index, new_to_old)

\* lines 2773-2776 and 2806-2809
AttachNumbering(numbering, r) ==
  IF r.n_groups * r.n_threads > 1
  THEN cs_numbering_create_threaded(r.n_threads, r.n_groups, r.group_index)
  ELSE numbering

\* lines 2834-2837
UpdateFacesIfGiven(msh, new_to_old_i, new_to_old_b) ==
  IF ~new_to_old_i.null \/ ~new_to_old_b.null
  THEN cs_renumber_update_faces(msh, new_to_old_i, new_to_old_b)
  ELSE msh

\* lines 2773-2847 on the outcomes i and b of the two producers; the cell
\* permutation is always released at line 2823, so the cells are not rewritten
ThreadsRest(msh, i, b) ==
  UpdateFacesIfGiven(
    [msh EXCEPT !.i_face_numbering = AttachNumbering(@, i),
                !.b_face_numbering = AttachNumbering(@, b)],
    i.new_to_old, b.new_to_old)

\* lines 2788-2802 without the test of the status of line 2795
BoundaryOutcomeKept(r, n_b_threads) ==
  FaceOutcomeKept(r.retval, n_b_threads, r.n_groups, r.group_index,
                  r.new_to_old)

\* lines 2788-2802 on the result r of the boundary partitioner
BoundaryOutcome(r, n_b_threads) ==
  FaceOutcome(r.retval, n_b_threads, r.n_groups, r.group_index, r.new_to_old)

\* lines 2762-2847 on the interior producer's output o, once the sorter has
\* ordered the boundary faces
ThreadsEnd(msh, o, n_b_threads, min_b_subset_size, order) ==
  ThreadsRest(
    msh,
    FaceOutcome(o.retval, o.n_threads, o.n_groups, o.group_index,
                o.new_to_old),
    BoundaryOutcome(
      renum_b_faces_no_share_cell_across_thread(msh, n_b_threads,
                                                min_b_subset_size, order),
      n_b_threads))

\* n_i_groups and n_i_threads after line 2769
InteriorCounts(o) ==
  [o EXCEPT
     !.n_groups = FaceOutcome(o.retval, o.n_threads, o.n_groups,
                              o.group_index, o.new_to_old).n_groups,
     !.n_threads = FaceOutcome(o.retval, o.n_threads, o.n_groups,
                               o.group_index, o.new_to_old).n_threads]

\* the output of the block algorithm with result r (lines 2740-2745)
BlockOutput(r, n_threads, n_faces) ==
  [CallerOutput("block", n_threads, n_faces) EXCEPT
     !.caller = "threads",
     !.retval = r.bounds.retval,
     !.new_to_old = r.new_to_old,
     !.n_groups = r.n_groups,
     !.group_index = r.bounds.group_index]

\* the output of the interior producers that return in one step
\* (lines 2738-2760); max_group_size is the default of line 2695
InteriorOutput(msh, n_threads, algorithm, min_i_subset_size) ==
  IF algorithm = "BLOCK"
  THEN BlockOutput(
         renum_i_faces_no_share_cell_in_block(msh, n_threads,
                                              min_i_subset_size, 1014),
         n_threads, msh.n_i_faces)
  ELSE [CallerOutput("none", n_threads, msh.n_i_faces) EXCEPT
          !.caller = "threads", !.retval = -1]

(***************************************************************************)
(* _renumber_test                                                          *)
(***************************************************************************)
\* the numbering that cs_numbering_create_default builds
cs_numbering_create_default(n_faces) ==
  [type |-> "default", n_threads |-> 1, n_groups |-> 1,
   group_index |-> [k \in 0..1 |-> IF k = 0 THEN 0 ELSE n_faces]]

\* the face ids that thread t_id visits in group g_id (lines 3020-3022)
TestRange(nb, t_id, g_id) ==
  nb.group_index[Slot(t_id, g_id, nb.n_groups)]
    ..(nb.group_index[Slot(t_id, g_id, nb.n_groups) + 1] - 1)

\* the turns <<g_id, t_id, f_id>> of the loops of lines 3016-3030
TestVisits(nb) ==
  UNION {{<<g_id, t_id, f_id>> : f_id \in TestRange(nb, t_id, g_id)} :
           <<g_id, t_id>> \in (0..(nb.n_groups - 1)) \X (0..(nb.n_threads - 1))}

\* accumulator after the loops of lines 3013-3030; cells[f_id] lists the
\* cells of face f_id
TestAccumulator(nb, cells, n_cells_with_ghosts) ==
  [c_id \in 0..(n_cells_with_ghosts - 1) |->
     Cardinality({<<v, k>> \in TestVisits(nb) \X (1..2) :
                    k <= Len(cells[v[3]]) /\ cells[v[3]][k] = c_id})]

\* face_errors after lines 3032-3035 (3160-3163): the cells are summed up to
\* n_summed
TestCountErrors(nb, cells, n_cells_with_ghosts, n_summed, n_writes) ==
  n_writes - SumUpTo(TestAccumulator(nb, cells, n_cells_with_ghosts), n_summed)

\* the turn <<g_id, t1, f1>> comes before <<g_id, t_id, f_id>> in the loops
\* of lines 3046-3049
TestBefore(t1, f1, t_id, f_id) == t1 < t_id \/ (t1 = t_id /\ f1 < f_id)

\* the thread ids written to accumulator[c_id] before the turn v of the loop
\* of lines 3046-3062
TestWriters(nb, cells, v, c_id) ==
  {w[2] : w \in {w \in TestVisits(nb) :
                   /\ w[1] = v[1]
                   /\ TestBefore(w[2], w[3], v[2], v[3])
                   /\ \E k \in 1..Len(cells[w[3]]) : cells[w[3]][k] = c_id}}

\* accumulator[c_id] at the turn v, as the test of lines 3052-3053 reads it:
\* a face whose two cells are the same is written twice but read before
TestMarked(nb, cells, v, c_id, t_id) ==
  \E t1 \in TestWriters(nb, cells, v, c_id) :
    /\ t1 # t_id
    /\ \A t2 \in TestWriters(nb, cells, v, c_id) : t2 <= t1

\* a serial test that finds nothing
TestSerialErrorsNone(nb, cells) == 0

\* face_errors after the serial test of lines 3041-3064: the turns at which
\* a cell of the face was last written by another thread of the group
TestSerialErrors(nb, cells) ==
  Cardinality({v \in TestVisits(nb) :
                 \E k \in 1..Len(cells[v[3]]) :
                   TestMarked(nb, cells, v, cells[v[3]][k], v[2])})

\* face_errors without the serial test
TestFaceErrorsCountOnly(count_errors, nb, cells) == count_errors

\* lines 3005-3066 (3135-3187): the serial test runs only if the count is
\* right
TestFaceErrors(count_errors, nb, cells) ==
  IF count_errors # 0 THEN count_errors ELSE TestSerialErrors(nb, cells)

\* lines 2998-3123; no numbering is of the vectorized type where the vector
\* size is 1 (line 2894)
TestInteriorFaces(msh) ==
  IF msh.i_face_numbering.type = "threaded"
  THEN TestFaceErrors(
         TestCountErrors(msh.i_face_numbering, msh.i_face_cells,
                         msh.n_cells_with_ghosts, msh.n_cells_with_ghosts,
                         msh.n_i_faces * 2),
         msh.i_face_numbering, msh.i_face_cells)
  ELSE 0

BFaceCellLists(msh) ==
  [f_id \in DOMAIN msh.b_face_cells |-> <<msh.b_face_cells[f_id]>>]

\* lines 3128-3239
TestBoundaryFaces(msh) ==
  IF msh.b_face_numbering.type = "threaded"
  THEN TestFaceErrors(
         TestCountErrors(msh.b_face_numbering, BFaceCellLists(msh),
                         msh.n_cells_with_ghosts, msh.n_cells,
                         msh.n_b_faces),
         msh.b_face_numbering, BFaceCellLists(msh))
  ELSE 0

\* _renumber_test on one rank: whether it ends in bft_error (line 3251)
renumber_test(msh) ==
  TestInteriorFaces(msh) # 0 \/ TestBoundaryFaces(msh) # 0

\* lines 3438-3441
WithDefaultNumberings(msh) ==
  [msh EXCEPT
     !.i_face_numbering =
        IF @ = NoNumbering THEN cs_numbering_create_default(msh.n_i_faces)
        ELSE @,
     !.b_face_numbering =
        IF @ = NoNumbering THEN cs_numbering_create_default(msh.n_b_faces)
        ELSE @]

\* lines 3279-3280
TargetThreads(settings, env) ==
  [settings EXCEPT
     !.n_threads = IF @ < 1 THEN env.cs_glob_n_threads ELSE @]

(***************************************************************************)
(* Actions: _renum_face_multipass                                          *)
(***************************************************************************)
\* what the caller of _renum_face_multipass hands to it
MultipassOutput(caller, n_i_threads, n_faces) ==
  [CallerOutput("multipass", n_i_threads, n_faces) EXCEPT !.caller = caller]

\* entry of _renum_face_multipass up to the first test of the loop
MultipassEnter(msh, n_i_threads, min_i_subset_size, caller) ==
  IF msh.n_i_faces <= min_i_subset_size
  THEN /\ pc' = "returned"
       /\ mp' = NoFrame
       /\ out' = [MultipassOutput(caller, n_i_threads, msh.n_i_faces)
                    EXCEPT !.retval = -1]
  ELSE /\ pc' = "multipass"
       /\ \E faces_list \in cs_order_lnum_allocated_s(
                              [f \in DOMAIN msh.i_face_cells |->
                                 LowerFirst(msh.i_face_cells[f])],
                              msh.n_i_faces) :
            mp' = MultipassFrame(msh, n_i_threads, faces_list)
       /\ out' = MultipassOutput(caller, n_i_threads, msh.n_i_faces)

\* values that the read outside faces_list may yield as a cell id
GarbageCells(m) == (-2)..m.n_f_cells

\* the state after a pass with result r: where the pass read outside
\* faces_list the run may also end in a memory fault
PassOutcome(r) ==
  \/ mp' = r.frame /\ pc' = pc
  \/ r.oob /\ mp' = mp /\ pc' = "fault"

\* one pass of the loop of lines 1670-1741; a value other than 0 for the
\* read outside faces_list is a distinct outcome only if the read happens
RenumFaceMultipassPass ==
  /\ pc = "multipass"
  /\ mp.faces_list_size > cfg.min_i_subset_size
  /\ mp.g_id < MaxGroups
  /\ \E garb \in GarbageCells(mp) :
       PassOutcome(MultipassPass(mp, cfg.min_i_subset_size, garb))
  /\ UNCHANGED <<cfg, mesh, out, hist>>

\* lines 1760-1848 on the frame m left by the last group
MultipassReturn(m) ==
  /\ \E faces_list \in cs_order_lnum_allocated_s(
                         FacesKeys(mesh.i_face_cells, m.f_t_id), m.n_faces) :
       out' = [out EXCEPT
                 !.retval = 0,
                 !.new_to_old = faces_list,
                 !.n_groups = m.g_id,
                 !.group_index =
                    BuildGroupIndex(m.n_faces, faces_list, m.f_t_id,
                                    m.n_i_threads, m.g_id)]
  /\ mp' = m

\* lines 1743-1848: last group, final ordering, group/thread index
RenumFaceMultipassFinish ==
  /\ pc = "multipass"
  /\ mp.faces_list_size <= cfg.min_i_subset_size
  /\ MultipassReturn(LastGroup(mp))
  /\ pc' = "returned"
  /\ UNCHANGED <<cfg, mesh, hist>>

(***************************************************************************)
(* Actions: the other index producers, each a single step                  *)
(***************************************************************************)
\* _independent_face_groups, whose group sizes the caller receives
IndependentFaceGroupsReturn(r) ==
  out' = [CallerOutput("groups", 0, mesh'.n_i_faces) EXCEPT
            !.new_to_old = r.new_to_old,
            !.n_groups = r.n_groups,
            !.group_size = r.group_size]

\* _renum_i_faces_no_share_cell_in_block
RenumIFacesBlockReturn(r, n_i_threads) ==
  out' = [CallerOutput("block", n_i_threads, mesh'.n_i_faces) EXCEPT
            !.retval = r.bounds.retval,
            !.new_to_old = r.new_to_old,
            !.n_groups = r.n_groups,
            !.group_index = r.bounds.group_index]

\* _renum_b_faces_no_share_cell_across_thread
RenumBFacesReturn(r, n_b_threads) ==
  out' = [CallerOutput("boundary", n_b_threads, mesh'.n_b_faces) EXCEPT
            !.retval = r.retval,
            !.new_to_old = r.new_to_old,
            !.n_groups = r.n_groups,
            !.group_index = r.group_index]

(***************************************************************************)
(* The functions called on their own                                       *)
(***************************************************************************)
CallRenumFaceMultipass ==
  /\ pc = "idle"
  /\ \E msh \in IMeshes, n_i_threads \in ThreadCounts,
        min_i_subset_size \in MinSubsetSizes :
       /\ mesh' = msh
       /\ cfg' = [cfg EXCEPT !.min_i_subset_size = min_i_subset_size]
       /\ MultipassEnter(mesh', n_i_threads, min_i_subset_size, "none")
  /\ UNCHANGED hist

CallIndependentFaceGroups ==
  /\ pc = "idle"
  /\ \E i_face_cells \in IFaceArrays, n_cells \in CellCounts,
        max_group_size \in 1..MaxFaces :
       /\ mesh' = IMesh(n_cells, i_face_cells)
       /\ IndependentFaceGroupsReturn(
            independent_face_groups(max_group_size, n_cells,
                                    mesh'.n_i_faces, i_face_cells))
  /\ pc' = "returned"
  /\ UNCHANGED <<cfg, mp, hist>>

\* max_group_size is the default of line 2695
CallRenumIFacesBlock ==
  /\ pc = "idle"
  /\ \E msh \in IMeshes, n_i_threads \in ThreadCounts,
        min_i_subset_size \in BlockMinSubsetSizes :
       /\ mesh' = msh
       /\ cfg' = [cfg EXCEPT !.min_i_subset_size = min_i_subset_size]
       /\ RenumIFacesBlockReturn(
            renum_i_faces_no_share_cell_in_block(msh, n_i_threads,
                                                 min_i_subset_size, 1014),
            n_i_threads)
  /\ pc' = "returned"
  /\ UNCHANGED <<mp, hist>>

CallRenumBFaces ==
  /\ pc = "idle"
  /\ \E b_face_cells \in BFaceArrays, n_b_threads \in BThreadCounts,
        min_subset_size \in MinSubsetSizes :
       /\ mesh' = BMesh(MaxFaceCells, b_face_cells)
       /\ cfg' = [cfg EXCEPT !.min_b_subset_size = min_subset_size]
       /\ \E order \in cs_order_lnum_allocated_s(BFaceKeys(b_face_cells),
                                                 mesh'.n_b_faces) :
            RenumBFacesReturn(
              renum_b_faces_no_share_cell_across_thread(
                mesh', n_b_threads, min_subset_size, order),
              n_b_threads)
  /\ pc' = "returned"
  /\ UNCHANGED <<mp, hist>>

\* meshes of MaxWideCells cells: faces from cell 0 or cell 1 to the other
\* cells, and the face between the cells 3 and 4
WidePairs ==
  {<<a, b>> : a \in 0..1, b \in 2..(MaxWideCells - 1)} \cup {<<3, 4>>}

\* the pairs of S as an array in lexical order
SortedPairs(S) ==
  [i \in 0..(Cardinality(S) - 1) |->
     CHOOSE p \in S : Cardinality({q \in S : LexLess(q, p, 1)}) = i]

\* three faces between the cells 0 and 1 (faces that share both cells, as
\* a joining or a periodicity leaves them) followed by the face q
TripleThen(q) == [i \in 0..3 |-> IF i < 3 THEN <<0, 1>> ELSE q]

WideMeshes ==
  {IMesh(MaxWideCells, SortedPairs(S)) : S \in SUBSET WidePairs}
    \cup {IMesh(MaxWideCells, TripleThen(q)) : q \in {<<2, 3>>, <<4, 5>>}}

CallRenumFaceMultipassWide ==
  /\ pc = "idle"
  /\ \E msh \in WideMeshes, n_i_threads \in ThreadCounts,
        min_i_subset_size \in MinSubsetSizes :
       /\ mesh' = msh
       /\ cfg' = [cfg EXCEPT !.min_i_subset_size = min_i_subset_size]
       /\ MultipassEnter(mesh', n_i_threads, min_i_subset_size, "none")
  /\ UNCHANGED hist

(***************************************************************************)
(* Actions: the connectivity rewriters called on their own                 *)
(***************************************************************************)
Remember(msh, new_to_old_i, new_to_old_b, new_to_old_c) ==
  hist' = [NoHistory EXCEPT
             !.mesh = msh, !.new_to_old_i = new_to_old_i,
             !.new_to_old_b = new_to_old_b, !.new_to_old_c = new_to_old_c]

\* _cs_renumber_update_faces on a mesh and two permutations
CallUpdateFaces ==
  /\ pc = "idle"
  /\ \E msh \in RMeshes :
       \E new_to_old_i \in PermsOrNull(msh.n_i_faces),
          new_to_old_b \in PermsOrNull(msh.n_b_faces) :
         /\ mesh' = cs_renumber_update_faces(msh, new_to_old_i, new_to_old_b)
         /\ Remember(msh, new_to_old_i, new_to_old_b, Null)
  /\ pc' = "faces"
  /\ UNCHANGED <<cfg, mp, out>>

\* _cs_renumber_update_faces again, with the inverse permutations
CallUpdateFacesInverse ==
  /\ pc = "faces"
  /\ mesh' = cs_renumber_update_faces(mesh, InverseOrNull(hist.new_to_old_i),
                                      InverseOrNull(hist.new_to_old_b))
  /\ pc' = "faces_back"
  /\ UNCHANGED <<cfg, mp, out, hist>>

\* values that a read outside new_cell_id may yield
GarbageCellIds(msh) == (-1)..msh.n_cells_with_ghosts

\* the end of the call: where it read outside new_cell_id the run may also
\* end in a memory fault
UpdateCellsOutcome(msh, new_to_old, garb) ==
  \/ mesh' = cs_renumber_update_cells(msh, new_to_old, garb) /\ pc' = "cells"
  \/ UpdateCellsReadsOutside(msh, new_to_old) /\ mesh' = msh /\ pc' = "fault"

\* _cs_renumber_update_cells on a mesh and a permutation of its local cells
CallUpdateCells ==
  /\ pc = "idle"
  /\ \E msh \in RMeshes :
       \E new_to_old \in PermsOrNull(msh.n_cells),
          garb \in GarbageCellIds(msh) :
         /\ UpdateCellsOutcome(msh, new_to_old, garb)
         /\ Remember(msh, Null, Null, new_to_old)
  /\ UNCHANGED <<cfg, mp, out>>

(***************************************************************************)
(* Actions: _renumber_for_threads                                          *)
(***************************************************************************)
\* the meshes handed to _renumber_for_threads: interior faces of the two
\* regular families, boundary faces round the cells that start at the last
\* cell, with or without lists
ThreadMeshes ==
  {BareMesh(n + 1, n + 1, ChainFaces(n), RoundFaces(n_b, n, n + 1)) :
     n \in 0..MaxThreadFaces, n_b \in 0..MaxFaces}
    \cup {BareMesh(2 * n, 2 * n, PairedFaces(n),
                   RoundFaces(n_b, 2 * n - 1, 2 * n)) :
            n \in 1..MaxThreadFaces, n_b \in 0..MaxFaces}

TMeshes == ThreadMeshes \cup {WithLists(msh) : msh \in ThreadMeshes}

Algorithms == {"BLOCK", "MULTIPASS", "NONE"}

\* the settings in force when the renumbering starts
Settings ==
  [n_threads : BThreadCounts, min_i_subset_size : MinSubsetSizes,
   min_b_subset_size : MinSubsetSizes, i_faces_algorithm : Algorithms]

\* lines 2762-2847, from the output o of the interior producer
RenumberForThreadsEnd(msh, o) ==
  /\ \E order \in cs_order_lnum_allocated_s(BFaceKeys(msh.b_face_cells),
                                            msh.n_b_faces) :
       mesh' = ThreadsEnd(msh, o, cfg'.n_threads, cfg'.min_b_subset_size,
                          order)
  /\ out' = InteriorCounts(o)
  /\ pc' = "done"

\* _renumber_for_threads up to the return of the interior producer: the
\* whole function when that is not _renum_face_multipass
RenumberForThreadsBegin(msh) ==
  IF cfg'.n_threads < 2
  THEN mesh' = msh /\ pc' = "done" /\ out' = NoOutput /\ mp' = mp
  ELSE IF cfg'.i_faces_algorithm = "MULTIPASS"
  THEN /\ mesh' = msh
       /\ MultipassEnter(msh, cfg'.n_threads, cfg'.min_i_subset_size,
                         "threads")
  ELSE /\ RenumberForThreadsEnd(
            msh, InteriorOutput(msh, cfg'.n_threads, cfg'.i_faces_algorithm,
                                cfg'.min_i_subset_size))
       /\ mp' = mp

CallRenumberForThreads ==
  /\ pc = "idle"
  /\ \E msh \in TMeshes, settings \in Settings :
       /\ cfg' = settings
       /\ Remember(msh, Null, Null, Null)
       /\ RenumberForThreadsBegin(msh)

\* _renumber_for_threads from the return of _renum_face_multipass, were the
\* block algorithm tried after a failure of the multipass algorithm
RenumberForThreadsResumeWithBlock ==
  /\ pc = "returned"
  /\ out.caller = "threads"
  /\ cfg' = cfg
  /\ RenumberForThreadsEnd(
       mesh,
       IF out.retval # 0
       THEN InteriorOutput(mesh, cfg.n_threads, "BLOCK",
                           cfg.min_i_subset_size)
       ELSE out)
  /\ UNCHANGED <<mp, hist>>

\* _renumber_for_threads from the return of _renum_face_multipass
RenumberForThreadsResume ==
  /\ pc = "returned"
  /\ out.caller = "threads"
  /\ cfg' = cfg
  /\ RenumberForThreadsEnd(mesh, out)
  /\ UNCHANGED <<mp, hist>>

(***************************************************************************)
(* Actions: cs_renumber_mesh                                               *)
(***************************************************************************)
\* a numbering of 2 threads and 1 group that a mesh of n faces may come with
GivenNumberings(n) ==
  {cs_numbering_create_threaded(
     2, 1, [k \in 0..3 |-> IF k = 0 THEN 0 ELSE IF k = 1 THEN a
                           ELSE IF k = 2 THEN b ELSE n]) :
     a \in 0..n, b \in 0..n}

\* a chain of MaxFaces interior faces with boundary faces on its first cells,
\* which comes with a threaded interior or boundary numbering
NumberedMeshes ==
  {[BareMesh(MaxFaces + 1, MaxFaces + 1, ChainFaces(MaxFaces),
             RoundFaces(MaxFaces, 0, MaxFaces - 1))
      EXCEPT !.i_face_numbering = nb] : nb \in GivenNumberings(MaxFaces)}
    \cup
  {[BareMesh(MaxFaces + 1, MaxFaces + 1, ChainFaces(MaxFaces),
             RoundFaces(MaxFaces, 0, MaxFaces - 1))
      EXCEPT !.b_face_numbering = nb] : nb \in GivenNumberings(MaxFaces)}

MMeshes == ThreadMeshes \cup NumberedMeshes

\* the settings and the surroundings of a call of cs_renumber_mesh
MeshSettings ==
  [n_threads : 0..2, min_i_subset_size : {1, 64},
   min_b_subset_size : {1, 64}, i_faces_algorithm : Algorithms]

Envs ==
  [caller : {"cs_renumber_mesh"}, cs_glob_n_threads : 1..2,
   CS_RENUMBER : {"unset", "off"}]

\* _renumber_mesh up to the return of the interior producer; where the vector
\* size is 1 _renumber_for_vectorizing returns 0 at line 2901
RenumberMeshBegin(msh, env) ==
  IF env.CS_RENUMBER = "off"
  THEN mesh' = msh /\ pc' = "done" /\ out' = NoOutput /\ mp' = mp
  ELSE RenumberForThreadsBegin(msh)

\* cs_renumber_mesh up to the return of the interior producer
CsRenumberMeshBegin(msh, settings, env) ==
  /\ cfg' = TargetThreads(settings, env)
  /\ hist' = [NoHistory EXCEPT !.mesh = msh, !.env = env, !.cfg = settings]
  /\ RenumberMeshBegin(msh, env)

CallCsRenumberMesh ==
  /\ pc = "idle"
  /\ \E msh \in MMeshes, settings \in MeshSettings, env \in Envs :
       CsRenumberMeshBegin(msh, settings, env)

\* 1-D chains of up to MaxChainCells cells without boundary faces
ChainMeshes ==
  {BareMesh(n, n, ChainFaces(n - 1), EmptyArr) :
     n \in (MaxChainCells - ChainSpread)..MaxChainCells}

ChainSettings ==
  [n_threads : 2..4, min_i_subset_size : {8}, min_b_subset_size : {8},
   i_faces_algorithm : {"MULTIPASS"}]

\* cs_renumber_mesh on a long chain
CallCsRenumberMeshChain ==
  /\ pc = "idle"
  /\ \E msh \in ChainMeshes, settings \in ChainSettings :
       CsRenumberMeshBegin(
         msh, settings,
         [caller |-> "cs_renumber_mesh", cs_glob_n_threads |-> 1,
          CS_RENUMBER |-> "unset"])

\* rows of boundary faces: the cell of a face is the cell of the face
\* before it or the next cell, and the faces are numbered along the row or
\* against it
RowCells(n, steps) == [i \in 0..(n - 1) |-> SumRange(steps, 1, i + 1)]

Reversed(a, n) == [i \in 0..(n - 1) |-> a[n - 1 - i]]

RowArrays ==
  UNION {{RowCells(n, steps) : steps \in [1..(n - 1) -> {0, 1}]} \cup
         {Reversed(RowCells(n, steps), n) : steps \in [1..(n - 1) -> {0, 1}]} :
           n \in (MaxRowFaces - 1)..MaxRowFaces}

RowThreadCounts == {2, 3}

RowMinSubsetSizes == {1, 4, 5}

\* _renum_b_faces_no_share_cell_across_thread on a row of boundary faces
CallRenumBFacesRow ==
  /\ pc = "idle"
  /\ \E b_face_cells \in RowArrays, n_b_threads \in RowThreadCounts,
        min_subset_size \in RowMinSubsetSizes :
       /\ mesh' = BMesh(MaxRowFaces, b_face_cells)
       /\ cfg' = [cfg EXCEPT !.min_b_subset_size = min_subset_size]
       /\ \E order \in cs_order_lnum_allocated_s(BFaceKeys(b_face_cells),
                                                 mesh'.n_b_faces) :
            RenumBFacesReturn(
              renum_b_faces_no_share_cell_across_thread(
                mesh', n_b_threads, min_subset_size, order),
              n_b_threads)
  /\ pc' = "returned"
  /\ UNCHANGED <<mp, hist>>

\* cs_renumber_mesh from the return of _renumber_mesh (lines 3438-3450)
CsRenumberMeshEnd ==
  /\ pc = "done"
  /\ hist.env.caller = "cs_renumber_mesh"
  /\ mesh' = WithDefaultNumberings(mesh)
  /\ pc' = IF renumber_test(mesh') THEN "fatal" ELSE "tested"
  /\ UNCHANGED <<cfg, mp, out, hist>>

(***************************************************************************)
(* The settings and their public functions (lines 3314-3412), c being the  *)
(* file-scope settings of lines 128-133                                    *)
(***************************************************************************)
cs_renumber_set_n_threads(c, n_threads) ==
  [c EXCEPT !.n_threads = n_threads]

cs_renumber_get_n_threads(c) == c.n_threads

\* lines 3358-3363 with the two arguments stored the other way round
cs_renumber_set_min_subset_size_swapped(c, min_i_subset_size, min_b_subset_size) ==
  [c EXCEPT !.min_i_subset_size = min_b_subset_size,
            !.min_b_subset_size = min_i_subset_size]

cs_renumber_set_min_subset_size(c, min_i_subset_size, min_b_subset_size) ==
  [c EXCEPT !.min_i_subset_size = min_i_subset_size,
            !.min_b_subset_size = min_b_subset_size]

\* the caller's two variables after the call: one that it gave no pointer
\* to (NULL) is not written
cs_renumber_get_min_subset_size(c, want_i, want_b) ==
  [min_i_subset_size |-> IF want_i THEN c.min_i_subset_size ELSE "unwritten",
   min_b_subset_size |-> IF want_b THEN c.min_b_subset_size ELSE "unwritten"]

cs_renumber_set_i_face_algorithm(c, algorithm) ==
  [c EXCEPT !.i_faces_algorithm = algorithm]

cs_renumber_get_i_face_algorithm(c) == c.i_faces_algorithm

\* what a public function of the settings was called with and returned
SettingsCall(function, args, value) ==
  [producer |-> function, caller |-> "none", args |-> args, value |-> value]

\* the caller is between two calls to cs_renumber_mesh
BetweenCalls == pc \in {"idle", "tested"}

ConfigThreadCounts == 0..2

ConfigSubsetSizes == {1, 64}

\* a setter: hist.cfg keeps the values last passed to each setter
SetNThreads ==
  /\ BetweenCalls
  /\ \E n_threads \in ConfigThreadCounts :
       /\ cfg' = cs_renumber_set_n_threads(cfg, n_threads)
       /\ hist' = [hist EXCEPT !.cfg.n_threads = n_threads]
       /\ out' = SettingsCall("cs_renumber_set_n_threads", <<n_threads>>,
                              "none")
  /\ UNCHANGED <<pc, mesh, mp>>

SetMinSubsetSize ==
  /\ BetweenCalls
  /\ \E min_i_subset_size \in ConfigSubsetSizes,
        min_b_subset_size \in ConfigSubsetSizes :
       /\ cfg' = cs_renumber_set_min_subset_size(cfg, min_i_subset_size,
                                                 min_b_subset_size)
       /\ hist' = [hist EXCEPT !.cfg.min_i_subset_size = min_i_subset_size,
                               !.cfg.min_b_subset_size = min_b_subset_size]
       /\ out' = SettingsCall("cs_renumber_set_min_subset_size",
                              <<min_i_subset_size, min_b_subset_size>>, "none")
  /\ UNCHANGED <<pc, mesh, mp>>

SetIFaceAlgorithm ==
  /\ BetweenCalls
  /\ \E algorithm \in Algorithms :
       /\ cfg' = cs_renumber_set_i_face_algorithm(cfg, algorithm)
       /\ hist' = [hist EXCEPT !.cfg.i_faces_algorithm = algorithm]
       /\ out' = SettingsCall("cs_renumber_set_i_face_algorithm",
                              <<algorithm>>, "none")
  /\ UNCHANGED <<pc, mesh, mp>>

GetNThreads ==
  /\ BetweenCalls
  /\ out' = SettingsCall("cs_renumber_get_n_threads", <<>>,
                         cs_renumber_get_n_threads(cfg))
  /\ UNCHANGED <<pc, cfg, mesh, mp, hist>>

GetMinSubsetSize ==
  /\ BetweenCalls
  /\ \E want_i \in BOOLEAN, want_b \in BOOLEAN :
       out' = SettingsCall("cs_renumber_get_min_subset_size",
                           <<want_i, want_b>>,
                           cs_renumber_get_min_subset_size(cfg, want_i, want_b))
  /\ UNCHANGED <<pc, cfg, mesh, mp, hist>>

GetIFaceAlgorithm ==
  /\ BetweenCalls
  /\ out' = SettingsCall("cs_renumber_get_i_face_algorithm", <<>>,
                         cs_renumber_get_i_face_algorithm(cfg))
  /\ UNCHANGED <<pc, cfg, mesh, mp, hist>>

\* the meshes renumbered with the settings in force: a chain with boundary
\* faces, and a mesh without faces
ConfigMeshes ==
  {BareMesh(MaxFaces + 1, MaxFaces + 1, ChainFaces(MaxFaces),
            RoundFaces(MaxFaces, MaxFaces, MaxFaces + 1)),
   BareMesh(1, 1, EmptyArr, EmptyArr)}

\* cs_glob_n_threads is set once, before the first call
SameProcess(env) ==
  hist.env.caller = "cs_renumber_mesh" =>
    env.cs_glob_n_threads = hist.env.cs_glob_n_threads

\* cs_renumber_mesh with the settings in force, up to the return of the
\* interior producer
CallCsRenumberMeshConfigured ==
  /\ BetweenCalls
  /\ \E msh \in ConfigMeshes, env \in Envs :
       /\ SameProcess(env)
       /\ cfg' = TargetThreads(cfg, env)
       /\ hist' = [NoHistory EXCEPT !.mesh = msh, !.env = env,
                                    !.cfg = hist.cfg]
       /\ RenumberMeshBegin(msh, env)

Init ==
  /\ pc = "idle"
  /\ cfg = InitialCfg
  /\ mesh = NoMesh
  /\ mp = NoFrame
  /\ out = NoOutput
  /\ hist = NoHistory

Next ==
  \/ CallRenumFaceMultipass
  \/ CallIndependentFaceGroups
  \/ CallRenumIFacesBlock
  \/ CallRenumBFaces
  \/ RenumFaceMultipassPass
  \/ RenumFaceMultipassFinish

Spec == Init /\ [][Next]_vars

\* the connectivity rewriters
NextRewriter ==
  \/ CallUpdateFaces
  \/ CallUpdateFacesInverse
  \/ CallUpdateCells

SpecRewriter == Init /\ [][NextRewriter]_vars

\* the renumbering for threads
NextThreads ==
  \/ CallRenumberForThreads
  \/ RenumFaceMultipassPass
  \/ RenumFaceMultipassFinish
  \/ RenumberForThreadsResume

SpecThreads == Init /\ [][NextThreads]_vars

\* cs_renumber_mesh
NextMesh ==
  \/ CallCsRenumberMesh
  \/ RenumFaceMultipassPass
  \/ RenumFaceMultipassFinish
  \/ RenumberForThreadsResume
  \/ CsRenumberMeshEnd

SpecMesh == Init /\ [][NextMesh]_vars

\* the scenarios: cs_renumber_mesh on long chains, the boundary faces of a
\* row
NextScenarios ==
  \/ CallCsRenumberMeshChain
  \/ CallRenumBFacesRow
  \/ RenumFaceMultipassPass
  \/ RenumFaceMultipassFinish
  \/ RenumberForThreadsResume
  \/ CsRenumberMeshEnd

SpecScenarios == Init /\ [][NextScenarios]_vars

\* _renum_face_multipass on the meshes with faces from two cells
NextWide ==
  \/ CallRenumFaceMultipassWide
  \/ RenumFaceMultipassPass
  \/ RenumFaceMultipassFinish

SpecWide == Init /\ [][NextWide]_vars

\* the settings: their public functions and cs_renumber_mesh in any order
NextConfig ==
  \/ SetNThreads
  \/ SetMinSubsetSize
  \/ SetIFaceAlgorithm
  \/ GetNThreads
  \/ GetMinSubsetSize
  \/ GetIFaceAlgorithm
  \/ CallCsRenumberMeshConfigured
  \/ RenumFaceMultipassPass
  \/ RenumFaceMultipassFinish
  \/ RenumberForThreadsResume
  \/ CsRenumberMeshEnd

SpecConfig == Init /\ [][NextConfig]_vars

(***************************************************************************)
(* Properties of the index producers                                       *)
(***************************************************************************)
\* the producer has returned with status 0
Done(producer) ==
  pc = "returned" /\ out.producer = producer /\ out.retval = 0

NFaces == Cardinality(DOMAIN out.new_to_old)

\* start and end of the entry of thread t_id in group g_id
StartOf(t_id, g_id) == out.group_index[Slot(t_id, g_id, out.n_groups)]

EndOf(t_id, g_id) == out.group_index[Slot(t_id, g_id, out.n_groups) + 1]

\* new face ids that a loop "for (f = start; f < end; f++)" visits
RangeOf(t_id, g_id) == StartOf(t_id, g_id)..(EndOf(t_id, g_id) - 1)

ValidEntry(t_id, g_id) ==
  StartOf(t_id, g_id) >= 0 /\ EndOf(t_id, g_id) > StartOf(t_id, g_id)

Threads == 0..(out.n_threads - 1)

Groups == 0..(out.n_groups - 1)

\* cells of the interior face with new id k
ICellsOf(k) ==
  {mesh.i_face_cells[out.new_to_old[k]][1],
   mesh.i_face_cells[out.new_to_old[k]][2]}

\* no face of one thread shares a cell with a face of another thread of
\* the same group
ConflictFree ==
  \A g_id \in Groups : \A t1 \in Threads, t2 \in Threads :
    t1 # t2 =>
      \A k1 \in RangeOf(t1, g_id), k2 \in RangeOf(t2, g_id) :
        ICellsOf(k1) \cap ICellsOf(k2) = {}

TwoThreadsInOneGroup ==
  \E g_id \in Groups : \E t1 \in Threads, t2 \in Threads :
    t1 # t2 /\ ValidEntry(t1, g_id) /\ ValidEntry(t2, g_id)

GroupOf(g_id) ==
  SumUpTo(out.group_size, g_id)..(SumUpTo(out.group_size, g_id + 1) - 1)

\* new face ids of group g_id in the table of the block algorithm
BlockGroupOf(g_id) == UNION {RangeOf(t_id, g_id) : t_id \in Threads}

Independent(positions) ==
  \A k1 \in positions, k2 \in positions :
    k1 # k2 => ICellsOf(k1) \cap ICellsOf(k2) = {}

\* C2: no two distinct faces that _independent_face_groups places in one
\* group share a cell, and in the table of the block algorithm no two faces
\* of one group share a cell, whichever threads they go to.
C2_BlockGroupsIndependent ==
  /\ Done("groups") => \A g_id \in Groups : Independent(GroupOf(g_id))
  /\ Done("block") =>
       /\ \A g_id \in Groups : Independent(BlockGroupOf(g_id))
       /\ ConflictFree

C2_Witness ==
  Done("block") /\ TwoThreadsInOneGroup

\* C3: in the index returned by
\* _renum_b_faces_no_share_cell_across_thread for a mesh with boundary
\* faces, the boundary faces of one cell are all in the range of one thread.
C3_BoundaryCellNotSplit ==
  (Done("boundary") /\ mesh.n_b_faces >= 1) =>
    \A c_id \in 0..(mesh.n_cells - 1) : \E t_id \in Threads :
      \A k \in 0..(mesh.n_b_faces - 1) :
        mesh.b_face_cells[out.new_to_old[k]] = c_id => k \in RangeOf(t_id, 0)

\* a thread whose range was extended past its target size to the next
\* change of cell, with faces left for the threads after it
C3_Witness ==
  /\ Done("boundary")
  /\ \E t_id \in Threads :
       /\ StartOf(t_id, 0)
            < (t_id + 1) * SubsetSize(mesh.n_b_faces, out.n_threads,
                                      cfg.min_b_subset_size)
       /\ (t_id + 1) * SubsetSize(mesh.n_b_faces, out.n_threads,
                                  cfg.min_b_subset_size)
            < EndOf(t_id, 0)
       /\ EndOf(t_id, 0) < mesh.n_b_faces

\* the valid entries of the table
ValidEntries == {e \in Threads \X Groups : ValidEntry(e[1], e[2])}

RECURSIVE SumOfSizes(_)
SumOfSizes(entries) ==
  IF entries = {} THEN 0
  ELSE LET e == CHOOSE x \in entries : TRUE
       IN (EndOf(e[1], e[2]) - StartOf(e[1], e[2])) + SumOfSizes(entries \ {e})

Coverage ==
  /\ \A e1 \in ValidEntries, e2 \in ValidEntries :
       e1 # e2 => RangeOf(e1[1], e1[2]) \cap RangeOf(e2[1], e2[2]) = {}
  /\ UNION {RangeOf(e[1], e[2]) : e \in ValidEntries} = 0..(NFaces - 1)
  /\ SumOfSizes(ValidEntries) = NFaces

\* C4: when the multipass assigner, the block algorithm or the boundary
\* partitioner returns 0, the valid ranges of the (thread, group) table are
\* pairwise disjoint, their union is 0..n_faces-1 and their sizes add up to
\* n_faces.
C4_Coverage ==
  (Done("multipass") \/ Done("block") \/ Done("boundary")) => Coverage

\* a multipass table with several groups, three valid entries or more and
\* an empty one
C4_Witness ==
  /\ Done("multipass")
  /\ out.n_groups >= 2
  /\ Cardinality(ValidEntries) >= 3
  /\ \E t_id \in Threads, g_id \in Groups : ~ValidEntry(t_id, g_id)

\* C5: new_to_old as written by _independent_face_groups (called on its own
\* or by the block algorithm), by _renum_face_multipass when it returns 0 and
\* by the boundary partitioner holds every old face id exactly once.
C5_Bijection ==
  (pc = "returned" /\ (out.producer \in {"groups", "block", "boundary"}
                         \/ Done("multipass"))) =>
    /\ DOMAIN out.new_to_old = 0..(NFaces - 1)
    /\ \A f_id \in 0..(NFaces - 1) :
         Cardinality({k \in 0..(NFaces - 1) : out.new_to_old[k] = f_id}) = 1

\* a grouping into several groups that moves faces
C5_Witness ==
  /\ Done("groups")
  /\ out.n_groups >= 2
  /\ out.new_to_old # Identity(NFaces)

\* C10: every pass of the loop of _renum_face_multipass assigns at least one
\* of the remaining faces to a thread: the number of remaining faces is
\* smaller after the pass than before it.
C10_PassAssignsFace ==
  [][(pc = "multipass" /\ pc' = "multipass")
       => mp'.faces_list_size < mp.faces_list_size]_vars

\* a pass that assigned no face and left the loop in the state it had before
\* the pass, but for the group number: the next pass does the same
C10_PassRepeats ==
  /\ pc = "multipass"
  /\ mp.g_id >= 2
  /\ mp.faces_list_size > cfg.min_i_subset_size
  /\ \A garb \in GarbageCells(mp) :
       MultipassPass(mp, cfg.min_i_subset_size, garb).frame
         = [mp EXCEPT !.g_id = @ + 1]

(***************************************************************************)
(* Properties of the connectivity rewriters                                *)
(***************************************************************************)
IsIdentity(p) == ~p.null /\ p.a = Identity(Cardinality(DOMAIN p.a))

SameFaceArrays(m1, m2) ==
  /\ m1.i_face_cells = m2.i_face_cells
  /\ m1.b_face_cells = m2.b_face_cells
  /\ m1.i_face_vtx = m2.i_face_vtx
  /\ m1.b_face_vtx = m2.b_face_vtx
  /\ m1.i_face_family = m2.i_face_family
  /\ m1.b_face_family = m2.b_face_family

\* C6: _cs_renumber_update_faces applied with permutations of the interior
\* and boundary faces and then with their inverses leaves the face -> cell
\* arrays, the face -> vertex indexes and lists and the face families as they
\* were before the first call.
C6_FacesRoundTrip ==
  pc = "faces_back" => SameFaceArrays(mesh, hist.mesh)

\* a round trip with a permutation of three interior faces or more that is
\* not its own inverse, on a mesh that has vertex lists and families, and
\* whose first call moved cell pairs, vertices and families
C6_Witness ==
  /\ pc = "faces_back"
  /\ ~hist.new_to_old_i.null
  /\ Inverse(hist.new_to_old_i.a) # hist.new_to_old_i.a
  /\ ~hist.new_to_old_b.null
  /\ ~IsIdentity(hist.new_to_old_b)
  /\ ~hist.mesh.i_face_vtx.lst.null
  /\ ~hist.mesh.i_face_family.null
  /\ ~SameFaceArrays(cs_renumber_update_faces(hist.mesh, hist.new_to_old_i,
                                              hist.new_to_old_b),
                     hist.mesh)

SameConnectivity(m1, m2) ==
  /\ SameFaceArrays(m1, m2)
  /\ m1.cell_cells = m2.cell_cells
  /\ m1.cell_family = m2.cell_family

\* C7: _cs_renumber_update_faces and _cs_renumber_update_cells applied with
\* the identity permutation leave the interior face -> cell pairs, the
\* boundary face -> cell ids, the face -> vertex indexes and lists, the
\* cell -> cells index and list and the family ids unchanged.
C7_IdentityUnchanged ==
  /\ (pc = "faces" /\ IsIdentity(hist.new_to_old_i)
                   /\ IsIdentity(hist.new_to_old_b))
       => SameConnectivity(mesh, hist.mesh)
  /\ (pc = "cells" /\ IsIdentity(hist.new_to_old_c))
       => SameConnectivity(mesh, hist.mesh)

\* C7, what does hold: the identity leaves everything but the boundary
\* face -> cell ids unchanged, and the faces rewriter leaves those unchanged
\* too.
C7_IdentityUnchangedButBoundaryCells ==
  /\ (pc = "faces" /\ IsIdentity(hist.new_to_old_i)
                   /\ IsIdentity(hist.new_to_old_b))
       => SameConnectivity(mesh, hist.mesh)
  /\ (pc = "cells" /\ IsIdentity(hist.new_to_old_c))
       => SameConnectivity([mesh EXCEPT !.b_face_cells = hist.mesh.b_face_cells],
                           hist.mesh)

\* the identity applied to the cells of a mesh with boundary faces
C7_Witness ==
  /\ pc = "cells"
  /\ IsIdentity(hist.new_to_old_c)
  /\ hist.mesh.n_b_faces >= 1
  /\ hist.mesh.n_i_faces >= 1
  /\ ~hist.mesh.cell_cells.lst.null

\* C8: for a permutation new_to_old of the local cells, the old -> new
\* lookup of _cs_renumber_update_cells maps every ghost cell to itself; in
\* the rewritten interior face -> cell array an entry that was a ghost cell
\* is unchanged and an entry that was a local cell is a local cell.
C8_GhostStability ==
  (pc = "cells" /\ ~hist.new_to_old_c.null) =>
    /\ \A c \in hist.mesh.n_cells..(hist.mesh.n_cells_with_ghosts - 1) :
         \A garb \in GarbageCellIds(hist.mesh) :
           NewCellId(hist.mesh, hist.new_to_old_c.a, garb)[c] = c
    /\ \A face_id \in 0..(hist.mesh.n_i_faces - 1) : \A j \in 1..2 :
         IF hist.mesh.i_face_cells[face_id][j] >= hist.mesh.n_cells
         THEN mesh.i_face_cells[face_id][j] = hist.mesh.i_face_cells[face_id][j]
         ELSE mesh.i_face_cells[face_id][j] \in 0..(hist.mesh.n_cells - 1)

\* cells permuted other than by the identity in a mesh with a ghost cell, a
\* face on the ghost cell and a local cell of a face that was renumbered
C8_Witness ==
  /\ pc = "cells"
  /\ ~hist.new_to_old_c.null
  /\ ~IsIdentity(hist.new_to_old_c)
  /\ hist.mesh.n_cells < hist.mesh.n_cells_with_ghosts
  /\ \E face_id \in 0..(hist.mesh.n_i_faces - 1) : \E j \in 1..2 :
       hist.mesh.i_face_cells[face_id][j] >= hist.mesh.n_cells
  /\ mesh.i_face_cells # hist.mesh.i_face_cells

(***************************************************************************)
(* Properties of the renumbering for threads                               *)
(***************************************************************************)
\* _renumber_for_threads ran with 2 threads or more and the multipass
\* algorithm on a mesh that has no more interior faces than the minimum
\* subset size
Infeasible ==
  /\ cfg.n_threads >= 2
  /\ cfg.i_faces_algorithm = "MULTIPASS"
  /\ hist.mesh.n_i_faces <= cfg.min_i_subset_size

SameInteriorFaces(m1, m2) ==
  /\ m1.i_face_cells = m2.i_face_cells
  /\ m1.i_face_vtx = m2.i_face_vtx
  /\ m1.i_face_family = m2.i_face_family
  /\ m1.global_i_face_num = m2.global_i_face_num

\* C9: when the mesh has no more interior faces than the minimum subset
\* size, _renum_face_multipass returns a negative status and leaves the
\* permutation and the index as its caller passed them; _renumber_for_threads
\* then falls back to one group and one thread for the interior faces,
\* attaches no threaded interior numbering, and leaves the interior face
\* arrays in their original order.
C9_InfeasibleMultipass ==
  /\ (pc = "returned" /\ out.caller = "threads" /\ Infeasible)
       => /\ out.retval < 0
          /\ out.new_to_old = Identity(mesh.n_i_faces)
          /\ out.n_groups = 1
          /\ out.group_index = EmptyArr
  /\ (pc = "done" /\ Infeasible)
       => /\ out.n_groups = 1
          /\ out.n_threads = 1
          /\ mesh.i_face_numbering = NoNumbering
          /\ SameInteriorFaces(mesh, hist.mesh)

\* 5 interior faces with the default minimum of 64, while the boundary faces
\* of the same call get a threaded numbering
C9_Witness ==
  /\ pc = "done"
  /\ Infeasible
  /\ hist.mesh.n_i_faces = 5
  /\ cfg.min_i_subset_size = 64
  /\ out.producer = "multipass"
  /\ mesh.b_face_numbering.type = "threaded"
  /\ mesh.b_face_cells # hist.mesh.b_face_cells

\* the same function attaches a threaded interior numbering when the
\* multipass algorithm succeeds
ThreadedInteriorAttached ==
  /\ pc = "done"
  /\ out.producer = "multipass"
  /\ mesh.i_face_numbering.type = "threaded"
  /\ mesh.i_face_cells # hist.mesh.i_face_cells

(***************************************************************************)
(* Properties of cs_renumber_mesh                                          *)
(***************************************************************************)
\* two different threads of one group of the numbering nb touch one cell
IndexConflict(nb, cells) ==
  \E g_id \in 0..(nb.n_groups - 1) :
    \E t1 \in 0..(nb.n_threads - 1), t2 \in 0..(nb.n_threads - 1) :
      /\ t1 # t2
      /\ \E f1 \in TestRange(nb, t1, g_id), f2 \in TestRange(nb, t2, g_id) :
           \E k1 \in 1..Len(cells[f1]), k2 \in 1..Len(cells[f2]) :
             cells[f1][k1] = cells[f2][k2]

\* the number of writes to cells that a loop over the numbering nb makes
RECURSIVE IndexWrites(_, _, _)
IndexWrites(nb, cells, visits) ==
  IF visits = {} THEN 0
  ELSE Len(cells[(CHOOSE v \in visits : TRUE)[3]])
         + IndexWrites(nb, cells, visits \ {CHOOSE v \in visits : TRUE})

\* the numbering nb is threaded and lets two threads of a group touch one
\* cell, or makes a number of writes other than n_writes
BadIndex(nb, cells, n_writes) ==
  /\ nb.type = "threaded"
  /\ \/ IndexConflict(nb, cells)
     \/ IndexWrites(nb, cells, TestVisits(nb)) # n_writes

\* cs_renumber_mesh has returned to its caller
MeshReturned == pc = "tested" /\ hist.env.caller = "cs_renumber_mesh"

\* C11: cs_renumber_mesh returns only after _renumber_test has run on the
\* mesh with its numberings attached, and it does not return normally when
\* the threaded interior or boundary numbering of the mesh lets two threads
\* of one group touch one cell or makes a number of writes other than
\* 2 * n_i_faces (n_b_faces): the run then ends in bft_error.
C11_ValidatorFatal ==
  /\ MeshReturned =>
       /\ mesh.i_face_numbering # NoNumbering
       /\ mesh.b_face_numbering # NoNumbering
       /\ ~BadIndex(mesh.i_face_numbering, mesh.i_face_cells,
                    2 * mesh.n_i_faces)
       /\ ~BadIndex(mesh.b_face_numbering, BFaceCellLists(mesh),
                    mesh.n_b_faces)
  /\ (pc = "done" /\ hist.env.caller = "cs_renumber_mesh")
       => ENABLED CsRenumberMeshEnd

\* the run ended in bft_error on an interior numbering that visits every
\* face once but lets both threads touch one cell
C11_Witness ==
  /\ pc = "fatal"
  /\ mesh.i_face_numbering.type = "threaded"
  /\ IndexWrites(mesh.i_face_numbering, mesh.i_face_cells,
                 TestVisits(mesh.i_face_numbering)) = 2 * mesh.n_i_faces
  /\ IndexConflict(mesh.i_face_numbering, mesh.i_face_cells)

\* cs_renumber_mesh returned with threaded numberings that it attached
MeshReturnedThreaded ==
  /\ MeshReturned
  /\ hist.mesh.i_face_numbering = NoNumbering
  /\ mesh.i_face_numbering.type = "threaded"
  /\ mesh.b_face_numbering.type = "threaded"

\* the run ended in bft_error on the count of writes alone
FatalOnCount ==
  /\ pc = "fatal"
  /\ ~IndexConflict(mesh.i_face_numbering, mesh.i_face_cells)
  /\ ~IndexConflict(mesh.b_face_numbering, BFaceCellLists(mesh))

(***************************************************************************)
(* Properties of the fallbacks of _renumber_for_threads                    *)
(***************************************************************************)
\* _renumber_for_threads has returned after it ran the interior producer
ThreadsReturned == pc = "done" /\ cfg.n_threads >= 2 /\ out.caller = "threads"

\* the block algorithm succeeds on the mesh that was handed in
BlockWouldSucceed ==
  renum_i_faces_no_share_cell_in_block(
    hist.mesh, cfg.n_threads, cfg.min_i_subset_size, 1014).bounds.retval = 0

\* the selected interior algorithm fails on the mesh that was handed in
SelectedFails ==
  IF cfg.i_faces_algorithm = "MULTIPASS"
  THEN hist.mesh.n_i_faces <= cfg.min_i_subset_size
  ELSE cfg.i_faces_algorithm = "BLOCK" => ~BlockWouldSucceed

\* C12 as stated: when the multipass algorithm is selected and fails, the
\* block algorithm is tried next, so the interior faces get a threaded
\* numbering whenever the block algorithm succeeds on the mesh.
C12_FallbackToBlock ==
  (ThreadsReturned /\ Infeasible /\ BlockWouldSucceed)
    => mesh.i_face_numbering.type = "threaded"

\* C12, amended: when the selected interior algorithm fails, no other
\* algorithm is tried: the producer that ran is the selected one, the
\* interior faces keep one group, one thread, their numbering and their
\* order, also where the block algorithm would succeed on the mesh.
C12_NoFallback ==
  (ThreadsReturned /\ SelectedFails)
    => /\ out.retval # 0
       /\ out.producer = (IF cfg.i_faces_algorithm = "MULTIPASS"
                          THEN "multipass"
                          ELSE IF cfg.i_faces_algorithm = "BLOCK"
                          THEN "block" ELSE "none")
       /\ out.n_groups = 1
       /\ out.n_threads = 1
       /\ mesh.i_face_numbering = hist.mesh.i_face_numbering
       /\ SameInteriorFaces(mesh, hist.mesh)

\* the multipass algorithm failed on a mesh on which the block algorithm
\* succeeds, and the interior faces were left as they were
C12_Witness ==
  /\ ThreadsReturned
  /\ Infeasible
  /\ BlockWouldSucceed
  /\ hist.mesh.n_i_faces >= 2
  /\ mesh.i_face_numbering = NoNumbering

(***************************************************************************)
(* Scenario A: the chain of 100 cells on 4 threads                         *)
(***************************************************************************)
ScenarioAMesh == BareMesh(100, 100, ChainFaces(99), EmptyArr)

\* cs_renumber_mesh was called on the chain of 100 cells with 4 threads, a
\* minimum subset size of 8 and the multipass algorithm
ScenarioA ==
  /\ hist.env.caller = "cs_renumber_mesh"
  /\ hist.mesh = ScenarioAMesh
  /\ cfg.n_threads = 4
  /\ cfg.min_i_subset_size = 8
  /\ cfg.i_faces_algorithm = "MULTIPASS"

\* some group of the numbering nb has a non-empty range for every thread
AllThreadsPopulated(nb) ==
  \E g_id \in 0..(nb.n_groups - 1) :
    \A t_id \in 0..(nb.n_threads - 1) : TestRange(nb, t_id, g_id) # {}

\* C13: on the chain of 100 cells and 99 interior faces with 4 threads and
\* a minimum subset size of 8, _renum_face_multipass returns 0 without a
\* fault, the interior numbering attached to the mesh is threaded on 4
\* threads with a group in which every thread has faces, no two threads of
\* a group touch one cell, and _renumber_test counts no error.
C13_ScenarioA ==
  ScenarioA =>
    /\ pc \notin {"fault", "fatal"}
    /\ pc \in {"returned", "done", "tested"} =>
         /\ out.producer = "multipass"
         /\ out.retval = 0
    /\ pc = "tested" =>
         /\ mesh.i_face_numbering.type = "threaded"
         /\ mesh.i_face_numbering.n_threads = 4
         /\ AllThreadsPopulated(mesh.i_face_numbering)
         /\ ~IndexConflict(mesh.i_face_numbering, mesh.i_face_cells)
         /\ TestInteriorFaces(mesh) = 0

\* scenario A has run to the return of cs_renumber_mesh, with the faces in
\* two groups
C13_Witness ==
  /\ ScenarioA
  /\ pc = "tested"
  /\ mesh.n_i_faces = 99
  /\ mesh.i_face_numbering.type = "threaded"
  /\ mesh.i_face_numbering.n_groups = 2
  /\ AllThreadsPopulated(mesh.i_face_numbering)

(***************************************************************************)
(* Scenario C: 10 boundary faces on 3 threads                              *)
(***************************************************************************)
\* the cell of the boundary face at position p of the new order
BCellAt(p) == mesh.b_face_cells[out.new_to_old[p]]

\* _renum_b_faces_no_share_cell_across_thread has returned for 10 boundary
\* faces, 3 threads and a minimum subset size of at most 4, the faces at
\* positions 3 and 4 of the cell order being of one cell and the face at
\* position 5 of another
ScenarioC ==
  /\ pc = "returned"
  /\ out.producer = "boundary"
  /\ mesh.n_b_faces = 10
  /\ out.n_threads = 3
  /\ cfg.min_b_subset_size <= 4
  /\ BCellAt(3) = BCellAt(4)
  /\ BCellAt(5) # BCellAt(4)

\* C14: in scenario C the range of thread 0 is [0, 5), thread 1 starts at
\* 5 and the range of the last thread ends at 10.
C14_ScenarioC ==
  ScenarioC =>
    /\ out.retval = 0
    /\ out.n_groups = 1
    /\ out.group_index[0] = 0
    /\ out.group_index[1] = 5
    /\ out.group_index[2] = 5
    /\ out.group_index[5] = 10

\* scenario C on faces numbered against the row, the end of thread 1 being
\* pushed as well
C14_Witness ==
  /\ ScenarioC
  /\ out.new_to_old[0] = 9
  /\ out.group_index[1] = 5
  /\ out.group_index[3] = 9
  /\ out.group_index[4] = 9

(***************************************************************************)
(* The minimum subset size of the interior faces                           *)
(***************************************************************************)
\* the number of faces of thread t_id in group g_id
RangeSize(t_id, g_id) ==
  IF ValidEntry(t_id, g_id) THEN EndOf(t_id, g_id) - StartOf(t_id, g_id) ELSE 0

\* the faces that remain when the pass of group g_id starts
RemainingAt(g_id) ==
  NFaces - Cardinality(UNION {RangeOf(t_id, g) :
                                t_id \in Threads, g \in 0..(g_id - 1)})

SettingsKept ==
  /\ cfg.min_i_subset_size = hist.cfg.min_i_subset_size
  /\ cfg.min_b_subset_size = hist.cfg.min_b_subset_size
  /\ cfg.i_faces_algorithm = hist.cfg.i_faces_algorithm

\* the target thread count is the one last passed to its setter, or
\* cs_glob_n_threads if that one was below 1 and cs_renumber_mesh ran
ThreadsKept ==
  \/ cfg.n_threads = hist.cfg.n_threads
  \/ /\ hist.cfg.n_threads < 1
     /\ hist.env.caller = "cs_renumber_mesh"
     /\ cfg.n_threads = hist.env.cs_glob_n_threads

\* the last call was to a getter and it returned the stored values
GetterReturns ==
  /\ out.producer = "cs_renumber_get_n_threads" => out.value = cfg.n_threads
  /\ out.producer = "cs_renumber_get_i_face_algorithm" =>
       out.value = cfg.i_faces_algorithm
  /\ out.producer = "cs_renumber_get_min_subset_size" =>
       /\ out.value.min_i_subset_size =
            (IF out.args[1] THEN cfg.min_i_subset_size ELSE "unwritten")
       /\ out.value.min_b_subset_size =
            (IF out.args[2] THEN cfg.min_b_subset_size ELSE "unwritten")

\* C16: whatever the sequence of calls to the setters, the getters and
\* cs_renumber_mesh, the stored subset sizes and algorithm are those last
\* passed to their setters (64, 64 and multipass before that), the stored
\* thread count is the one last passed to its setter (0 before that)
\* unless it was below 1 and cs_renumber_mesh replaced it by
\* cs_glob_n_threads, and each getter returns the stored value.
C16_ConfigState ==
  /\ SettingsKept
  /\ ThreadsKept
  /\ GetterReturns
  /\ (hist = NoHistory /\ out = NoOutput) =>
       cfg = [n_threads |-> 0, min_i_subset_size |-> 64,
              min_b_subset_size |-> 64, i_faces_algorithm |-> "MULTIPASS"]

\* after cs_renumber_mesh has run with a thread count of 0 and subset sizes
\* of 1 and 64 set by the caller, the getter returns cs_glob_n_threads
C16_Witness ==
  /\ pc = "tested"
  /\ hist.cfg.n_threads = 0
  /\ hist.cfg.min_i_subset_size = 1
  /\ hist.cfg.min_b_subset_size = 64
  /\ hist.env.cs_glob_n_threads = 2
  /\ out.producer = "cs_renumber_get_n_threads"
  /\ out.value = 2

(***************************************************************************)
(* The failure of the boundary partitioner                                 *)
(***************************************************************************)
SameBoundaryFaces(m1, m2) ==
  /\ m1.b_face_cells = m2.b_face_cells
  /\ m1.b_face_vtx = m2.b_face_vtx
  /\ m1.b_face_family = m2.b_face_family
  /\ m1.global_b_face_num = m2.global_b_face_num

\* what _renum_b_faces_no_share_cell_across_thread returned in the call of
\* _renumber_for_threads that has ended, for each ordering of the sorter
BoundaryResults ==
  {renum_b_faces_no_share_cell_across_thread(
     hist.mesh, cfg.n_threads, cfg.min_b_subset_size, order) :
       order \in cs_order_lnum_allocated_s(BFaceKeys(hist.mesh.b_face_cells),
                                           hist.mesh.n_b_faces)}

\* _renumber_for_threads has run its two producers and returned
ThreadsRan == pc = "done" /\ cfg.n_threads >= 2

\* C17: _renum_b_faces_no_share_cell_across_thread returns a negative
\* status if and only if the mesh has no boundary face; _renumber_for_threads
\* then goes on with one group and one thread, attaches no boundary
\* numbering and leaves the boundary face arrays as they were.
C17_BoundaryFailure ==
  ThreadsRan =>
    /\ \A r \in BoundaryResults :
         /\ r.retval < 0 <=> hist.mesh.n_b_faces = 0
         /\ r.retval < 0 =>
              /\ BoundaryOutcome(r, cfg.n_threads).n_groups = 1
              /\ BoundaryOutcome(r, cfg.n_threads).n_threads = 1
    /\ hist.mesh.n_b_faces = 0 =>
         /\ mesh.b_face_numbering = hist.mesh.b_face_numbering
         /\ mesh.b_face_numbering.type # "threaded"
         /\ SameBoundaryFaces(mesh, hist.mesh)

\* a mesh without boundary faces whose interior faces were renumbered on 3
\* threads
C17_Witness ==
  /\ ThreadsRan
  /\ hist.mesh.n_b_faces = 0
  /\ cfg.n_threads = 3
  /\ mesh.i_face_numbering.type = "threaded"
  /\ mesh.b_face_numbering = NoNumbering

(***************************************************************************)
(* The initial assignment of a pass                                        *)
(***************************************************************************)
\* a pass of the loop of _renum_face_multipass is about to start
PassStarts ==
  /\ pc = "multipass"
  /\ mp.faces_list_size > cfg.min_i_subset_size
  /\ mp.g_id < MaxGroups

\* the frame after the first call of _renum_face_multipass_assign in the
\* pass that starts (line 1694)
FirstAssigned ==
  renum_face_multipass_assign(
    PassBegin(mp, ActiveThreads(mp.n_i_threads, mp.faces_list_size,
                                cfg.min_i_subset_size)))

\* the frames after the second call of _renum_face_multipass_assign in the
\* pass that starts (line 1481), on the boundaries that the redistribution
\* tries, for each value of the read outside faces_list
TrialAssigned ==
  {renum_face_multipass_assign(
     [FirstAssigned EXCEPT
        !.t_cell_index = RedistributeLoop(FirstAssigned, garb, 0,
                                          FirstAssigned.t_cell_index,
                                          FALSE).t_cell_index]) :
       garb \in GarbageCells(mp)}

\* both cells of face f_id lie in the cell block of thread t_id
BothInBlock(m, f_id, t_id) ==
  /\ m.t_cell_index[t_id] <= m.l_face_cells[f_id][1]
  /\ m.l_face_cells[f_id][1] < m.t_cell_index[t_id + 1]
  /\ m.t_cell_index[t_id] <= m.l_face_cells[f_id][2]
  /\ m.l_face_cells[f_id][2] < m.t_cell_index[t_id + 1]

\* the remaining faces of the frame m
RemainingFaces(m) == {m.faces_list[fl_id] : fl_id \in 0..(m.faces_list_size - 1)}

\* in the frame m a remaining face has the tag of thread t_id of the current
\* group if and only if both its cells lie in the block of t_id, and the
\* tag -1 if there is no such thread
AssignedByBlock(m) ==
  \A f_id \in RemainingFaces(m) :
    /\ \A t_id \in 0..(m.n_g_i_threads - 1) :
         m.f_t_id[f_id] = t_id + m.g_id * m.n_i_threads
           <=> BothInBlock(m, f_id, t_id)
    /\ (\A t_id \in 0..(m.n_g_i_threads - 1) : ~BothInBlock(m, f_id, t_id))
         => m.f_t_id[f_id] = -1

\* C18: in every pass, after _renum_face_multipass_assign a remaining face
\* has the tag of thread t of the current group if and only if both its
\* cells lie in [t_cell_index[t], t_cell_index[t+1]), and -1 otherwise.
C18_AssignByBlock ==
  PassStarts =>
    /\ AssignedByBlock(FirstAssigned)
    /\ FirstAssigned.n_g_i_threads >= 2 =>
         \A m \in TrialAssigned : AssignedByBlock(m)

\* in the frame m a remaining face with the tag of a thread of the current
\* group has both cells in the block of that thread
TaggedInBlock(m) ==
  \A f_id \in RemainingFaces(m) :
    \/ m.f_t_id[f_id] = -1
    \/ \E t_id \in 0..(m.n_g_i_threads - 1) :
         /\ m.f_t_id[f_id] = t_id + m.g_id * m.n_i_threads
         /\ BothInBlock(m, f_id, t_id)

\* the half of C18 that the code keeps: a face is tagged only with the
\* thread whose block holds both its cells
C18_TaggedInBlock ==
  PassStarts =>
    /\ TaggedInBlock(FirstAssigned)
    /\ FirstAssigned.n_g_i_threads >= 2 =>
         \A m \in TrialAssigned : TaggedInBlock(m)

\* a later pass is about to start on the mesh with the faces (0,2), (0,3),
\* (0,4), (1,5), (3,4) and 3 threads, and its first assignment leaves a
\* face unassigned whose two cells lie in the block of thread 1
C18_SkippedFace ==
  /\ PassStarts
  /\ mp.g_id = 1
  /\ mp.n_i_threads = 3
  /\ mesh.i_face_cells = SortedPairs({<<0, 2>>, <<0, 3>>, <<0, 4>>, <<1, 5>>,
                                      <<3, 4>>})
  /\ \E f_id \in RemainingFaces(FirstAssigned) :
       /\ FirstAssigned.f_t_id[f_id] = -1
       /\ BothInBlock(FirstAssigned, f_id, 1)

(***************************************************************************)
(* The redistribution of a pass                                            *)
(***************************************************************************)
\* the pass that starts redistributes: its group has two threads or more
\* (line 1377)
PassRedistributes == PassStarts /\ FirstAssigned.n_g_i_threads >= 2

\* the frame after the second call of _renum_face_multipass_assign (line
\* 1481) when the read outside faces_list yields garb
TrialFrame(garb) ==
  renum_face_multipass_assign(
    [FirstAssigned EXCEPT
       !.t_cell_index = RedistributeLoop(FirstAssigned, garb, 0,
                                         FirstAssigned.t_cell_index,
                                         FALSE).t_cell_index])

\* the frame when _renum_face_multipass_redistribute returns
RedistributedFrame(garb) ==
  renum_face_multipass_redistribute(FirstAssigned, garb).frame

\* the number of faces that the frame m gives to the threads of its group
AssignedCount(m) == SumUpTo(m.n_t_faces, m.n_g_i_threads)

\* the imbalance max/mean - 1 of the frame m1 is a number not greater than
\* that of m0 (both of the same group): max1/sum1 <= max0/sum0, with sum1
\* and sum0 positive
ImbalanceNotGreater(m1, m0) ==
  /\ AssignedCount(m1) > 0
  /\ AssignedCount(m0) > 0
  /\ MaxUpTo(m1.n_t_faces, m1.n_g_i_threads) * AssignedCount(m0)
       <= MaxUpTo(m0.n_t_faces, m0.n_g_i_threads) * AssignedCount(m1)

\* the frame m1 is not less balanced than m0: where m0 assigns a face, so
\* that its imbalance is a number, the imbalance of m1 is not greater
NotWorsened(m1, m0) == AssignedCount(m0) > 0 => ImbalanceNotGreater(m1, m0)

\* the boundaries, the counts and the tags of m1 are those of m0
SameAssignment(m1, m0) ==
  /\ m1.t_cell_index = m0.t_cell_index
  /\ m1.n_t_faces = m0.n_t_faces
  /\ m1.f_t_id = m0.f_t_id

\* C19: when _renum_face_multipass_redistribute returns, the imbalance of
\* the group is not greater than that of the initial assignment, and if the
\* trial boundaries give a worse imbalance then t_cell_index, n_t_faces and
\* f_t_id are exactly those of the initial assignment.
C19_NonWorsening ==
  PassRedistributes =>
    \A garb \in GarbageCells(mp) :
      /\ NotWorsened(RedistributedFrame(garb), FirstAssigned)
      /\ ~NotWorsened(TrialFrame(garb), FirstAssigned)
           => SameAssignment(RedistributedFrame(garb), FirstAssigned)

\* the initial assignment of the pass gives faces to threads and the frame
\* that the redistribution returns gives none: its imbalance is 0/0
C19_AllUnassigned ==
  /\ PassRedistributes
  /\ AssignedCount(FirstAssigned) > 0
  /\ \E garb \in GarbageCells(mp) : AssignedCount(RedistributedFrame(garb)) = 0

\* what the comparison of line 1500 keeps: where the returned frame assigns
\* a face its imbalance is not greater than the initial one, and where the
\* comparison finds the trial greater the initial assignment is restored
C19_ComparedNotGreater ==
  PassRedistributes =>
    \A garb \in GarbageCells(mp) :
      /\ AssignedCount(RedistributedFrame(garb)) > 0
           => NotWorsened(RedistributedFrame(garb), FirstAssigned)
      /\ UnbalanceGreater(FirstAssigned.n_g_i_threads,
                          TrialFrame(garb).n_t_faces,
                          FirstAssigned.n_t_faces)
           => SameAssignment(RedistributedFrame(garb), FirstAssigned)

\* a pass in which the comparison of line 1500 finds the trial greater
C19_Reverted ==
  /\ PassRedistributes
  /\ \E garb \in GarbageCells(mp) :
       UnbalanceGreater(FirstAssigned.n_g_i_threads,
                        TrialFrame(garb).n_t_faces, FirstAssigned.n_t_faces)

(***************************************************************************)
(* The order of faces_list at the start of a pass                          *)
(***************************************************************************)
\* the local cell pair of the face at position fl_id of the list of m
LocalPair(m, fl_id) == m.l_face_cells[m.faces_list[fl_id]]

\* faces_list of the frame m is in non-decreasing lexical order of the
\* local cell pairs of its faces
InLexicalOrder(m) ==
  \A fl_id \in 0..(m.faces_list_size - 2) :
    LexLE(LocalPair(m, fl_id), LocalPair(m, fl_id + 1))

\* C20: at the start of every pass of _renum_face_multipass, the first one
\* and those after a local cell renumbering, faces_list holds the remaining
\* faces in non-decreasing lexical order of their current local cell pairs.
C20_LexicalOrder == PassStarts => InLexicalOrder(mp)

\* a pass after a local cell renumbering starts on a list that is not in
\* lexical order of the renumbered pairs
C20_OutOfOrder == PassStarts /\ mp.g_id > 0 /\ ~InLexicalOrder(mp)

\* what the code keeps: the list of the first pass, sorted at lines
\* 1646-1666, is in lexical order
C20_FirstPassOrdered == (PassStarts /\ mp.g_id = 0) => InLexicalOrder(mp)

(***************************************************************************)
(* The number of active threads of a pass                                  *)
(***************************************************************************)
\* the number of threads of the group of the pass that starts (lines
\* 1672-1682)
PassThreads == FirstAssigned.n_g_i_threads

\* C21: in every pass 1 <= n_g_i_threads <= n_i_threads and
\* n_g_i_threads * _min_i_subset_size <= faces_list_size, so that each
\* active thread can receive the minimum subset size.
C21_EnoughWork ==
  PassStarts =>
    /\ 1 <= PassThreads
    /\ PassThreads <= mp.n_i_threads
    /\ PassThreads * cfg.min_i_subset_size <= mp.faces_list_size

\* a pass in which the test of line 1677 holds and that has fewer faces
\* than n_g_i_threads * _min_i_subset_size
C21_TooManyThreads ==
  /\ PassStarts
  /\ mp.faces_list_size \div cfg.min_i_subset_size < mp.n_i_threads
  /\ PassThreads * cfg.min_i_subset_size > mp.faces_list_size

\* what the code keeps: the bounds on n_g_i_threads, and enough faces for
\* one thread less than it has
C21_ThreadRange ==
  PassStarts =>
    /\ 1 <= PassThreads
    /\ PassThreads <= mp.n_i_threads
    /\ (PassThreads - 1) * cfg.min_i_subset_size <= mp.faces_list_size

(***************************************************************************)
(* The local cell renumbering of a pass                                    *)
(***************************************************************************)
\* the frames on which the pass that starts calls
\* _renum_face_multipass_remaining (line 1735): faces are left, and the
\* list holds them (lines 1723-1733)
FramesToRenumber ==
  {m \in {CompactFaces(RedistributedFrame(garb)) : garb \in GarbageCells(mp)} :
     m.faces_list_size > 0}

\* the cells of the remaining face f_id in the pairs l_face_cells
CellsOfFace(l_face_cells, f_id) == {l_face_cells[f_id][1], l_face_cells[f_id][2]}

\* the cells that the remaining faces of the frame m touch
TouchedCells(m) == UNION {CellsOfFace(m.l_face_cells, f_id) : f_id \in RemainingFaces(m)}

\* the renumbering of the frame m is dense: the cells touched get distinct
\* ids that fill 0 .. n_f_cells_new - 1, and each remaining face gets the
\* new ids of its two cells, the lower first
DenseRenumbering(m) ==
  /\ \A c, d \in TouchedCells(m) :
       RemainingCellIds(m)[c] = RemainingCellIds(m)[d] => c = d
  /\ {RemainingCellIds(m)[c] : c \in TouchedCells(m)}
       = 0..(renum_face_multipass_remaining(m).n_f_cells - 1)
  /\ \A f_id \in RemainingFaces(m) :
       /\ renum_face_multipass_remaining(m).l_face_cells[f_id][1]
            <= renum_face_multipass_remaining(m).l_face_cells[f_id][2]
       /\ CellsOfFace(renum_face_multipass_remaining(m).l_face_cells, f_id)
            = {RemainingCellIds(m)[c] : c \in CellsOfFace(m.l_face_cells, f_id)}

\* two remaining faces of the frame m share a cell after the renumbering
\* if and only if they shared one before it
SharingKept(m) ==
  \A f_id, g_id \in RemainingFaces(m) :
    (CellsOfFace(renum_face_multipass_remaining(m).l_face_cells, f_id)
       \cap CellsOfFace(renum_face_multipass_remaining(m).l_face_cells, g_id) # {})
    <=> (CellsOfFace(m.l_face_cells, f_id)
           \cap CellsOfFace(m.l_face_cells, g_id) # {})

\* C22: _renum_face_multipass_remaining maps the cells touched by the
\* remaining faces one to one onto 0 .. n_f_cells_new - 1, keeps
\* l_face_cells[f][0] <= l_face_cells[f][1], and two remaining faces share a
\* local cell after it if and only if they shared one before.
C22_DenseRenumbering ==
  PassStarts => \A m \in FramesToRenumber : DenseRenumbering(m) /\ SharingKept(m)

\* a renumbering that changes cell ids, of a list with two faces that
\* share a cell and two that do not, and that leaves cells out
C22_Witness ==
  /\ PassStarts
  /\ \E m \in FramesToRenumber :
       /\ renum_face_multipass_remaining(m).n_f_cells < m.n_f_cells
       /\ renum_face_multipass_remaining(m).l_face_cells # m.l_face_cells
       /\ \E f_id, g_id \in RemainingFaces(m) :
            /\ f_id # g_id
            /\ CellsOfFace(m.l_face_cells, f_id)
                 \cap CellsOfFace(m.l_face_cells, g_id) # {}
       /\ \E f_id, g_id \in RemainingFaces(m) :
            CellsOfFace(m.l_face_cells, f_id)
              \cap CellsOfFace(m.l_face_cells, g_id) = {}

(***************************************************************************)
(* _thread_bounds_by_group_size on its own                                 *)
(***************************************************************************)
\* the arrays group_size of n_groups groups
GroupSizeArrays(n_groups) == [0..(n_groups - 1) -> 0..MaxGroupFaces]

BoundsThreadCounts == 1..3

\* the values of n_faces tried with the sizes group_size: their sum, one
\* less and one more
FaceCountsAround(group_size, n_groups) ==
  {n \in {SumUpTo(group_size, n_groups) + d : d \in {-1, 0, 1}} : n >= 0}

\* what is known of a call once it has returned
BoundsCall(n_faces, n_groups, n_threads, group_size, r) ==
  [producer |-> "bounds", caller |-> "none",
   args |-> [n_faces |-> n_faces, n_groups |-> n_groups,
             n_threads |-> n_threads, group_size |-> group_size],
   retval |-> r.retval, group_index |-> r.group_index]

\* a call of _thread_bounds_by_group_size
CallThreadBoundsByGroupSize ==
  /\ pc = "idle"
  /\ \E n_groups \in 0..MaxBoundGroups, n_threads \in BoundsThreadCounts :
       \E group_size \in GroupSizeArrays(n_groups) :
         \E n_faces \in FaceCountsAround(group_size, n_groups) :
           out' = BoundsCall(n_faces, n_groups, n_threads, group_size,
                             thread_bounds_by_group_size(n_faces, n_groups,
                                                         n_threads, group_size))
  /\ pc' = "returned"
  /\ UNCHANGED <<cfg, mesh, mp, hist>>

NextBounds == CallThreadBoundsByGroupSize

SpecBounds == Init /\ [][NextBounds]_vars

\* a call of _thread_bounds_by_group_size has returned
BoundsReturned == pc = "returned" /\ out.producer = "bounds"

\* the start and the end that the table gives thread k in group g
BoundsStart(k, g) == out.group_index[Slot(k, g, out.args.n_groups)]
BoundsEnd(k, g) == out.group_index[Slot(k, g, out.args.n_groups) + 1]

\* the first face of group g: the sizes of the groups before it
FirstOfGroup(g) == SumUpTo(out.args.group_size, g)

\* the share of thread k in a group of s faces split over n threads
ThreadShare(s, n, k) == (s \div n) + (IF k < s % n THEN 1 ELSE 0)

\* group g is cut in consecutive ranges, thread k having ThreadShare faces
SplitEvenly(g) ==
  /\ BoundsStart(0, g) = FirstOfGroup(g)
  /\ \A k \in 0..(out.args.n_threads - 1) :
       /\ BoundsEnd(k, g) - BoundsStart(k, g)
            = ThreadShare(out.args.group_size[g], out.args.n_threads, k)
       /\ k > 0 => BoundsStart(k, g) = BoundsEnd(k - 1, g)

\* group g is the range of thread 0, and the other threads have an empty one
OnThreadZero(g) ==
  /\ BoundsStart(0, g) = FirstOfGroup(g)
  /\ BoundsEnd(0, g) = FirstOfGroup(g) + out.args.group_size[g]
  /\ \A k \in 1..(out.args.n_threads - 1) : BoundsEnd(k, g) = BoundsStart(k, g)

\* C23: a group of s faces with s / n_threads > 4 is split in thread order,
\* thread k receiving s / n_threads faces and one more if k < s mod
\* n_threads; any other group goes to thread 0 and the other threads have an
\* empty range; the function fails exactly when the lengths assigned do not
\* add up to n_faces.
C23_BlockThreadBounds ==
  BoundsReturned =>
    /\ \A g \in 0..(out.args.n_groups - 1) :
         IF out.args.group_size[g] \div out.args.n_threads > 4
         THEN SplitEvenly(g) ELSE OnThreadZero(g)
    /\ out.retval \in {0, -1}
    /\ out.retval = -1
         <=> SumUpTo(out.args.group_size, out.args.n_groups) # out.args.n_faces

\* a successful call with a group that is split with a remainder, after a
\* group that is not
C23_Witness ==
  /\ BoundsReturned
  /\ out.retval = 0
  /\ out.args.n_groups = 2
  /\ out.args.n_threads = 3
  /\ out.args.group_size[0] \div 3 <= 4
  /\ out.args.group_size[0] > 0
  /\ out.args.group_size[1] \div 3 > 4
  /\ out.args.group_size[1] % 3 = 1
  /\ BoundsEnd(0, 1) - BoundsStart(0, 1) = BoundsEnd(1, 1) - BoundsStart(1, 1) + 1

\* a call that fails
C23_Fails == BoundsReturned /\ out.retval = -1

(***************************************************************************)
(* _independent_face_groups, one turn of its loop at a time                *)
(*                                                                         *)
(* While the function runs (pc = "grouping") mp holds its argument         *)
(* max_group_size and its locals.                                          *)
(***************************************************************************)
\* the values of max_group_size tried: the last one is larger than any set
\* of faces
GroupSizeLimits == 1..(MaxFaces + 1)

\* the turns of the loop of line 1085 that a run is followed for
MaxTurns == MaxFaces + 2

\* lines 1045-1083: the function is entered
IndependentFaceGroupsEnter ==
  /\ pc = "idle"
  /\ \E i_face_cells \in IFaceArrays, n_cells \in CellCounts,
        max_group_size \in GroupSizeLimits :
       /\ mesh' = IMesh(n_cells, i_face_cells)
       /\ mp' = [max_group_size |-> max_group_size,
                 locals |-> GroupsInit(mesh'.n_i_faces, max_group_size)]
       /\ out' = CallerOutput("groups", 0, mesh'.n_i_faces)
  /\ pc' = "grouping"
  /\ UNCHANGED <<cfg, hist>>

\* lines 1085-1146: one turn of the loop, which opens, fills and closes a
\* group
IndependentFaceGroupsTurn ==
  /\ pc = "grouping"
  /\ mp.locals.n_marked_faces # mesh.n_i_faces
  /\ mp.locals.group_id < MaxTurns
  /\ \E cell_faces \in {csr_graph_create_cell_face(mesh.n_cells_with_ghosts,
                                                    mesh.n_i_faces,
                                                    mesh.i_face_cells)} :
       mp' = [mp EXCEPT
                !.locals = GroupsTurn(cell_faces, mesh.i_face_cells,
                                      mesh.n_i_faces, mp.max_group_size, @)]
  /\ UNCHANGED <<pc, cfg, mesh, out, hist>>

\* lines 1148-1163: the loop is left and the function returns
IndependentFaceGroupsExit ==
  /\ pc = "grouping"
  /\ mp.locals.n_marked_faces = mesh.n_i_faces
  /\ out' = [out EXCEPT
               !.new_to_old = GroupsResult(mp.locals, mesh.n_i_faces).new_to_old,
               !.n_groups = GroupsResult(mp.locals, mesh.n_i_faces).n_groups,
               !.group_size = GroupsResult(mp.locals, mesh.n_i_faces).group_size]
  /\ pc' = "returned"
  /\ UNCHANGED <<cfg, mesh, mp, hist>>

NextGroups ==
  \/ IndependentFaceGroupsEnter
  \/ IndependentFaceGroupsTurn
  \/ IndependentFaceGroupsExit

SpecGroups == Init /\ [][NextGroups]_vars

\* a function that has been entered goes on running
SpecGroupsFair ==
  SpecGroups /\ WF_vars(IndependentFaceGroupsTurn)
             /\ WF_vars(IndependentFaceGroupsExit)

\* the groups closed so far: each has one face at least and max_group_size
\* at most, there are n_faces of them at most, and their sizes add up to
\* the number of faces marked
GroupsSoFar ==
  /\ \A g \in 0..(mp.locals.group_id - 1) :
       /\ 1 <= mp.locals.group_size[g]
       /\ mp.locals.group_size[g] <= mp.max_group_size
  /\ mp.locals.group_id <= mesh.n_i_faces
  /\ SumUpTo(mp.locals.group_size, mp.locals.group_id) = mp.locals.n_marked_faces
  /\ mp.locals.n_marked_faces <= mesh.n_i_faces

\* what the function returns: the groups closed when all faces are marked
GroupsReturned ==
  /\ out.n_groups = mp.locals.group_id
  /\ out.group_size = mp.locals.group_size
  /\ SumUpTo(out.group_size, out.n_groups) = mesh.n_i_faces

\* C24: _independent_face_groups terminates for every face set and every
\* max_group_size >= 1, also one larger than any independent set; every
\* group has one face at least and max_group_size at most, there are at
\* most n_faces groups and their sizes add up to n_faces.
C24_GrouperTerminates ==
  /\ (pc = "grouping") ~> (pc = "returned")
  /\ [](pc \in {"grouping", "returned"} => GroupsSoFar)
  /\ [](pc = "returned" => GroupsReturned)

\* a return with several groups, none of which has max_group_size faces
C24_Witness ==
  /\ pc = "returned"
  /\ out.n_groups >= 2
  /\ \A g \in 0..(out.n_groups - 1) : out.group_size[g] < mp.max_group_size
  /\ \E g \in 0..(out.n_groups - 1) : out.group_size[g] >= 2

(***************************************************************************)
(* What a face holds after _cs_renumber_update_faces                       *)
(***************************************************************************)
\* the vertices of face f_id in the indexed list c, in their order
VerticesOf(c, f_id) ==
  [kk \in 0..(c.idx[f_id + 1] - c.idx[f_id] - 1) |->
     c.lst.a[c.idx[f_id] - 1 + kk]]

\* the list now holds at each of the n_faces positions the vertices that the
\* list before held for the face new_to_old names, and the index ends where it
\* ended; a mesh without vertex lists stays without
GatheredVertices(now, before, new_to_old, n_faces) ==
  IF before.lst.null THEN now = before
  ELSE /\ ~now.lst.null
       /\ now.idx[0] = 1
       /\ now.idx[n_faces] = before.idx[n_faces]
       /\ DOMAIN now.lst.a = DOMAIN before.lst.a
       /\ \A ii \in 0..(n_faces - 1) :
            VerticesOf(now, ii) = VerticesOf(before, new_to_old[ii])

\* the family array holds at each position the family of the old face
GatheredFamily(now, before, new_to_old, n_faces) ==
  IF before.null THEN now.null
  ELSE /\ ~now.null
       /\ \A ii \in 0..(n_faces - 1) : now.a[ii] = before.a[new_to_old[ii]]

\* the global numbers are those of the old faces, or new_to_old + 1 where
\* the mesh had none
GatheredGlobalNum(now, before, new_to_old, n_faces) ==
  /\ ~now.null
  /\ \A ii \in 0..(n_faces - 1) :
       now.a[ii] = IF before.null THEN new_to_old[ii] + 1
                   ELSE before.a[new_to_old[ii]]

\* the interior faces of the mesh are those of hist.mesh gathered by
\* hist.new_to_old_i
GatheredInterior ==
  /\ \A ii \in 0..(mesh.n_i_faces - 1) :
       mesh.i_face_cells[ii] = hist.mesh.i_face_cells[hist.new_to_old_i.a[ii]]
  /\ GatheredVertices(mesh.i_face_vtx, hist.mesh.i_face_vtx,
                      hist.new_to_old_i.a, mesh.n_i_faces)
  /\ GatheredFamily(mesh.i_face_family, hist.mesh.i_face_family,
                    hist.new_to_old_i.a, mesh.n_i_faces)
  /\ GatheredGlobalNum(mesh.global_i_face_num, hist.mesh.global_i_face_num,
                       hist.new_to_old_i.a, mesh.n_i_faces)

\* the same for the boundary faces and hist.new_to_old_b
GatheredBoundary ==
  /\ \A ii \in 0..(mesh.n_b_faces - 1) :
       mesh.b_face_cells[ii] = hist.mesh.b_face_cells[hist.new_to_old_b.a[ii]]
  /\ GatheredVertices(mesh.b_face_vtx, hist.mesh.b_face_vtx,
                      hist.new_to_old_b.a, mesh.n_b_faces)
  /\ GatheredFamily(mesh.b_face_family, hist.mesh.b_face_family,
                    hist.new_to_old_b.a, mesh.n_b_faces)
  /\ GatheredGlobalNum(mesh.global_b_face_num, hist.mesh.global_b_face_num,
                       hist.new_to_old_b.a, mesh.n_b_faces)

\* C25: after _cs_renumber_update_faces with a permutation new_to_old, the
\* face at each new position i has the cells, the vertex sequence, the
\* family and the global number of the old face new_to_old[i] (the global
\* number new_to_old[i] + 1 if the mesh had none), and the size of the
\* face -> vertex connectivity is unchanged.
C25_ConsistentGather ==
  pc = "faces" =>
    /\ mesh.n_i_faces = hist.mesh.n_i_faces
    /\ mesh.n_b_faces = hist.mesh.n_b_faces
    /\ ~hist.new_to_old_i.null => GatheredInterior
    /\ ~hist.new_to_old_b.null => GatheredBoundary

\* a call on a mesh with vertex lists, families and global numbers that
\* moves interior faces with different numbers of vertices, and boundary
\* faces
C25_Witness ==
  /\ pc = "faces"
  /\ ~hist.new_to_old_i.null
  /\ ~hist.new_to_old_b.null
  /\ ~IsIdentity(hist.new_to_old_b)
  /\ ~hist.mesh.i_face_vtx.lst.null
  /\ ~hist.mesh.global_i_face_num.null
  /\ mesh.n_i_faces >= 3
  /\ mesh.i_face_vtx.idx # hist.mesh.i_face_vtx.idx
  /\ mesh.i_face_family # hist.mesh.i_face_family

\* a call on a mesh without global numbers, which gives it some
C25_NumbersCreated ==
  /\ pc = "faces"
  /\ ~hist.new_to_old_i.null
  /\ ~IsIdentity(hist.new_to_old_i)
  /\ hist.mesh.global_i_face_num.null
  /\ ~mesh.global_i_face_num.null

(***************************************************************************)
(* _csr_graph_create on its own                                            *)
(***************************************************************************)
\* line 758: the rows of at least this many entries go through the heap sort
HeapSortSize == 20

\* the flat arrays of n_faces pairs of cell numbers 1 .. n_cells_ext
FlatFaceCells(n_cells_ext, n_faces) ==
  [0..(2 * n_faces - 1) -> 1..n_cells_ext]

\* n_faces faces around cell 1, face f leading to the leaf (f * step) mod
\* StarLeaves, the odd faces naming the leaf first
StarFaceCells(n_faces, step) ==
  [k \in 0..(2 * n_faces - 1) |->
     IF (k % 2 = 0) = ((k \div 2) % 2 = 0)
     THEN 1
     ELSE 2 + (((k \div 2) * step) % StarLeaves)]

StarSteps == {1, 3, 7}

\* what is known of a call once it has returned
GraphCall(n_cells_ext, n_faces, face_cell, g) ==
  [producer |-> "graph", caller |-> "none",
   args |-> [n_cells_ext |-> n_cells_ext, n_faces |-> n_faces,
             face_cell |-> face_cell],
   graph |-> g]

\* a call of _csr_graph_create
CallCsrGraphCreate ==
  /\ pc = "idle"
  /\ \/ \E n_cells_ext \in 1..MaxGraphCells, n_faces \in 0..MaxGraphFaces :
          \E face_cell \in FlatFaceCells(n_cells_ext, n_faces) :
            out' = GraphCall(n_cells_ext, n_faces, face_cell,
                             csr_graph_create(n_cells_ext, n_faces, face_cell))
     \/ \E n_faces \in (HeapSortSize - 2)..MaxStarFaces, step \in StarSteps :
          out' = GraphCall(StarLeaves + 1, n_faces,
                           StarFaceCells(n_faces, step),
                           csr_graph_create(StarLeaves + 1, n_faces,
                                            StarFaceCells(n_faces, step)))
  /\ pc' = "returned"
  /\ UNCHANGED <<cfg, mesh, mp, hist>>

NextGraph == CallCsrGraphCreate

SpecGraph == Init /\ [][NextGraph]_vars

\* a call of _csr_graph_create has returned
GraphReturned == pc = "returned" /\ out.producer = "graph"

\* the cells at the other end of the faces of cell c
GraphNeighbours(c) ==
  {out.args.face_cell[2 * f + 1] - 1 :
     f \in {f \in 0..(out.args.n_faces - 1) :
              out.args.face_cell[2 * f] - 1 = c}}
  \cup
  {out.args.face_cell[2 * f] - 1 :
     f \in {f \in 0..(out.args.n_faces - 1) :
              out.args.face_cell[2 * f + 1] - 1 = c}}

\* the positions of row c in col_id
GraphRow(c) == out.graph.row_index[c]..(out.graph.row_index[c + 1] - 1)

GraphRows == 0..(out.graph.n_rows - 1)

\* the number of entries of cell c in the argument
GraphEntries(c) ==
  CellEntryCount(out.args.n_faces, out.args.face_cell, c)

\* C26: the graph returned has row_index[0] = 0 and a non-decreasing
\* row_index; row c lists exactly the cells that share a face with cell c,
\* in strictly increasing order, each once; the adjacency is symmetric and
\* row_index[n_rows] is the number of column ids stored.
C26_GraphStructure ==
  GraphReturned =>
    /\ out.graph.n_rows = out.args.n_cells_ext
    /\ DOMAIN out.graph.row_index = 0..out.graph.n_rows
    /\ out.graph.row_index[0] = 0
    /\ \A c \in GraphRows : out.graph.row_index[c] <= out.graph.row_index[c + 1]
    /\ \A c \in GraphRows :
         /\ {out.graph.col_id[k] : k \in GraphRow(c)} = GraphNeighbours(c)
         /\ \A k \in GraphRow(c) :
              k > out.graph.row_index[c]
                => out.graph.col_id[k - 1] < out.graph.col_id[k]
    /\ \A c, d \in GraphRows :
         (\E k \in GraphRow(c) : out.graph.col_id[k] = d)
           <=> (\E k \in GraphRow(d) : out.graph.col_id[k] = c)
    /\ DOMAIN out.graph.col_id = 0..(out.graph.row_index[out.graph.n_rows] - 1)

\* a graph of a few cells where two cells share more than one face and a
\* cell has its neighbours named out of order
C26_Witness ==
  /\ GraphReturned
  /\ out.args.n_faces <= MaxGraphFaces
  /\ \E c \in GraphRows : GraphEntries(c) > Cardinality(GraphNeighbours(c))
  /\ \E f, g \in 0..(out.args.n_faces - 1) :
       /\ f < g
       /\ out.args.face_cell[2 * f] = out.args.face_cell[2 * g]
       /\ out.args.face_cell[2 * f + 1] > out.args.face_cell[2 * g + 1]
  /\ out.graph.row_index[out.graph.n_rows] < 2 * out.args.n_faces

\* a graph with a row that went through the heap sort and lost entries
C26_HeapSorted ==
  /\ GraphReturned
  /\ GraphEntries(0) >= HeapSortSize
  /\ Cardinality(GraphRow(0)) = StarLeaves

\* the longest row of the graph returned
LongestRow ==
  CHOOSE n \in {0} \cup {Cardinality(GraphRow(c)) : c \in GraphRows} :
    \A c \in GraphRows : Cardinality(GraphRow(c)) <= n

\* C27: n_cols_max of the graph returned is the length of its longest row,
\* also when entries were removed.
C27_RecordedMaxDegree == GraphReturned => out.graph.n_cols_max = LongestRow

\* entries were removed and n_cols_max is more than the length of any row
C27_StaleMaxDegree ==
  /\ GraphReturned
  /\ out.graph.row_index[out.graph.n_rows] < 2 * out.args.n_faces
  /\ out.graph.n_cols_max > LongestRow

\* without removed entries n_cols_max is the length of the longest row
C27_ExactWithoutDuplicates ==
  (GraphReturned
   /\ out.graph.row_index[out.graph.n_rows] = 2 * out.args.n_faces)
    => out.graph.n_cols_max = LongestRow

(***************************************************************************)
(* The cell blocks after the redistribution                                *)
(***************************************************************************)
\* the blocks of the frame m cut 0 .. n_f_cells in consecutive ranges
CellBlocksPartition(m) ==
  /\ m.t_cell_index[0] = 0
  /\ m.t_cell_index[m.n_g_i_threads] = m.n_f_cells
  /\ \A t \in 0..(m.n_g_i_threads - 1) :
       m.t_cell_index[t] <= m.t_cell_index[t + 1]

\* the call of _renum_face_multipass_redistribute of the pass that starts
\* reads faces_list[-1] when that read yields garb
ReadsOutside(garb) == renum_face_multipass_redistribute(FirstAssigned, garb).oob

\* C28: after the call of _renum_face_multipass_redistribute of any pass,
\* t_cell_index[0] = 0, t_cell_index[n_g_i_threads] = n_f_cells and
\* t_cell_index does not decrease, so that the cell blocks of the threads are
\* disjoint.
C28_CellBlocksPartition ==
  PassRedistributes =>
    \A garb \in GarbageCells(mp) : CellBlocksPartition(RedistributedFrame(garb))

\* a pass whose redistribution reads nothing outside faces_list and returns
\* a block that ends before it starts
C28_DecreasingIndex ==
  /\ PassRedistributes
  /\ CellBlocksPartition(FirstAssigned)
  /\ \E garb \in GarbageCells(mp) :
       /\ ~ReadsOutside(garb)
       /\ \E t \in 0..(FirstAssigned.n_g_i_threads - 1) :
            RedistributedFrame(garb).t_cell_index[t]
              > RedistributedFrame(garb).t_cell_index[t + 1]

\* the two ends of the index are kept, and the index that the pass starts
\* with is a partition
C28_EndsKept ==
  PassRedistributes =>
    /\ CellBlocksPartition(FirstAssigned)
    /\ \A garb \in GarbageCells(mp) :
         /\ RedistributedFrame(garb).t_cell_index[0] = 0
         /\ RedistributedFrame(garb).t_cell_index[FirstAssigned.n_g_i_threads]
              = FirstAssigned.n_f_cells

(***************************************************************************)
(* The reads of faces_list and the thread id of the assignment             *)
(***************************************************************************)
\* the thread id that the scan of _renum_face_multipass_assign ends on
\* (line 1282) when run on the frame m
LastThreadScanned(m) ==
  AssignLoop([m |-> AssignReset(m), t_id |-> 0], 0, m.faces_list_size).t_id

\* the frame that the second call of _renum_face_multipass_assign starts
\* from (line 1481) when the read outside faces_list yields garb
TrialBoundaries(garb) ==
  [FirstAssigned EXCEPT
     !.t_cell_index = RedistributeLoop(FirstAssigned, garb, 0,
                                       FirstAssigned.t_cell_index,
                                       FALSE).t_cell_index]

\* C29: in the passes of _renum_face_multipass, with 2 threads or more and
\* _min_i_subset_size >= 1, every read faces_list[k] of the assignment and
\* of the redistribution has 0 <= k < faces_list_size, and the thread id of
\* the assignment stays below n_g_i_threads.
C29_ReadsInRange ==
  (PassStarts /\ mp.n_i_threads >= 2 /\ cfg.min_i_subset_size >= 1) =>
    /\ LastThreadScanned(PassBegin(mp, PassThreads)) < PassThreads
    /\ \A garb \in GarbageCells(mp) :
         /\ ~ReadsOutside(garb)
         /\ PassThreads >= 2 => LastThreadScanned(TrialBoundaries(garb))
                                  < PassThreads

\* a pass whose redistribution reads faces_list[-1]
C29_ReadsBeforeList ==
  /\ PassStarts
  /\ mp.n_i_threads >= 2
  /\ cfg.min_i_subset_size >= 1
  /\ mp.g_id = 0
  /\ \E garb \in GarbageCells(mp) : ReadsOutside(garb)

\* the thread id of the assignment stays below n_g_i_threads, in the first
\* assignment of a pass and in the one on the boundaries tried
C29_ThreadIdInRange ==
  PassStarts =>
    /\ LastThreadScanned(PassBegin(mp, PassThreads)) < PassThreads
    /\ \A garb \in GarbageCells(mp) :
         PassThreads >= 2 => LastThreadScanned(TrialBoundaries(garb))
                               < PassThreads

(***************************************************************************)
(* _renumber_test on any threaded interior index                           *)
(*                                                                         *)
(* The ranges of the tables lie in the face array, so that every read of   *)
(* i_face_cells is defined.  Where two threads of a group write one cell,  *)
(* the additions of lines 3025-3026 are not ordered and some can be lost:  *)
(* lost is the number of them.                                             *)
(***************************************************************************)
TestMeshes ==
  {IMesh(2 * n, PairedFaces(n)) : n \in 0..MaxTestFaces}
    \cup {IMesh(n + 1, ChainFaces(n)) : n \in 0..MaxTestFaces}
    \cup {IMesh(2, [f \in 0..(n - 1) |-> <<0, 1>>]) : n \in 0..MaxTestFaces}

\* the start and end that a table may give a thread in a group
TestRanges(n_faces) ==
  {<<-1, -1>>} \cup {r \in (0..n_faces) \X (0..n_faces) : r[1] <= r[2]}

\* the tables of n_threads * n_groups such ranges
TestTables(n_faces, n_threads, n_groups) ==
  {[k \in 0..(2 * n_threads * n_groups - 1) |-> r[k \div 2][1 + (k % 2)]] :
     r \in [0..(n_threads * n_groups - 1) -> TestRanges(n_faces)]}

\* the additions of lines 3025-3026 to a cell that another thread of the
\* same group adds to as well
TestUnorderedWrites(nb, cells) ==
  Cardinality({<<v, k>> \in TestVisits(nb) \X (1..2) :
                 \E w \in TestVisits(nb) :
                   /\ w[1] = v[1]
                   /\ w[2] # v[2]
                   /\ \E j \in 1..2 : cells[w[3]][j] = cells[v[3]][k]})

TestLostWrites(nb, cells) ==
  0..(IF TestUnorderedWrites(nb, cells) > 0
      THEN TestUnorderedWrites(nb, cells) - 1 ELSE 0)

\* face_errors[0] after lines 2998-3069 when lost additions are lost
TestInteriorErrors(msh, lost) ==
  TestFaceErrors(
    TestCountErrors(msh.i_face_numbering, msh.i_face_cells,
                    msh.n_cells_with_ghosts, msh.n_cells_with_ghosts,
                    msh.n_i_faces * 2) + lost,
    msh.i_face_numbering, msh.i_face_cells)

TestCall(msh, face_errors) ==
  /\ mesh' = msh
  /\ out' = [producer |-> "test", caller |-> "none",
             face_errors |-> face_errors]
  /\ pc' = IF face_errors # 0 THEN "fatal" ELSE "tested"

\* a call of _renumber_test on a mesh with a threaded interior numbering
CallRenumberTest ==
  /\ pc = "idle"
  /\ \E msh \in TestMeshes, n_threads \in 1..2, n_groups \in 1..2 :
       \E group_index \in TestTables(msh.n_i_faces, n_threads, n_groups) :
         \E numbered \in
              {[msh EXCEPT !.i_face_numbering =
                  cs_numbering_create_threaded(n_threads, n_groups,
                                               group_index)]} :
           \E lost \in TestLostWrites(numbered.i_face_numbering,
                                      numbered.i_face_cells) :
             TestCall(numbered, TestInteriorErrors(numbered, lost))
  /\ UNCHANGED <<cfg, mp, hist>>

NextValidator == CallRenumberTest

SpecValidator == Init /\ [][NextValidator]_vars

\* _renumber_test has run on its own and found no interior error
TestAccepted == pc = "tested" /\ out.producer = "test"

\* the ranges of the interior numbering of the mesh that hold position f_id
RangesHolding(f_id) ==
  {s \in (0..(mesh.i_face_numbering.n_groups - 1))
           \X (0..(mesh.i_face_numbering.n_threads - 1)) :
     f_id \in TestRange(mesh.i_face_numbering, s[2], s[1])}

\* the sum of the lengths of the ranges of the interior numbering
RangeLengths ==
  Cardinality(TestVisits(mesh.i_face_numbering))

\* the original statement: if _renumber_test reports no interior error then
\* every face position in [0, n_i_faces) lies in exactly one (thread,
\* group) range of the table.
C30_AcceptedCovers ==
  TestAccepted =>
    \A f_id \in 0..(mesh.n_i_faces - 1) : Cardinality(RangesHolding(f_id)) = 1

\* C30: for every threaded interior index whose ranges lie in the face
\* array, _renumber_test reports no interior error exactly when the lengths
\* of the ranges add up to n_i_faces and no two threads of a group touch one
\* cell.
C30_AcceptedCountAndConflicts ==
  out.producer = "test" =>
    (pc = "tested"
       <=> /\ RangeLengths = mesh.n_i_faces
           /\ ~IndexConflict(mesh.i_face_numbering, mesh.i_face_cells))

\* a table accepted although a face lies in two ranges and another in none
C30_Witness ==
  /\ TestAccepted
  /\ mesh.i_face_numbering.n_threads = 2
  /\ \E f_id \in 0..(mesh.n_i_faces - 1) : RangesHolding(f_id) = {}
  /\ \E f_id \in 0..(mesh.n_i_faces - 1) : Cardinality(RangesHolding(f_id)) = 2

\* a table refused by the serial test alone, and one refused after a lost
\* addition
C30_Refused ==
  /\ pc = "fatal"
  /\ out.producer = "test"
  /\ RangeLengths = mesh.n_i_faces
  /\ IndexConflict(mesh.i_face_numbering, mesh.i_face_cells)

====
